---- MODULE Spec2Model ----
(***************************************************************************)
(* Model of the tracker report engine (services/tracker_processor.py):     *)
(* TrackerDataProcessor.process and the stages it calls, field mapper,     *)
(* phase normalizer, derivation engine, risk classifier and the five       *)
(* sheet builders.                                                         *)
(*                                                                         *)
(* Text.  A Python str is modelled as a sequence of lexemes ("atoms"): a   *)
(* keyword the code searches for is a sequence of atoms, a decimal digit   *)
(* is one atom, a blank is the atom " ".  An atom that is not a digit      *)
(* holds no digit, and an atom that is not a keyword holds no keyword, so  *)
(* Python's substring test is the contiguous-subsequence test Contains.    *)
(* The value None (csv.DictReader's restval for a cell a short row does    *)
(* not have) is the reserved text NoneVal.                                 *)
(***************************************************************************)
EXTENDS Integers, Sequences, FiniteSets, TLC

VARIABLES
    pc,         \* position inside process / the unit driver
    data,       \* the input handed to process: [decodable, lines]
    raw_rows,   \* list(csv.DictReader(...)): one function label -> cell per data row
    students,   \* the list of StudentRecord
    wb,         \* the openpyxl Workbook: [created, sheets]
    result,     \* the ProcessingResult returned by process
    log,        \* history: what each earlier call of process on this instance was given and gave
    storage,    \* the FileStorageService: its _files table and the upload directory
    now,        \* the clock read by datetime.now()
    sessions,   \* TrackerCog._upload_sessions
    tasks       \* the upload command invocations of the TrackerCog

vars == <<pc, data, raw_rows, students, wb, result, log, storage, now, sessions, tasks>>

(***************************************************************************)
(* Python text primitives                                                  *)
(***************************************************************************)
NoneVal == <<"<None>">>

\* bool(value) of an Optional[str]
Truthy(v) == v # NoneVal /\ v # <<>>

\* str(value)
Str(v) == IF v = NoneVal THEN <<"None">> ELSE v

\* pat in text
Contains(text, pat) ==
    \E i \in 0..(Len(text) - Len(pat)) :
        \A j \in 1..Len(pat) : text[i + j] = pat[j]

LowerAtom(a) ==
    CASE a = "Phase" -> "phase"
      [] a = "Issue" -> "issue"
      [] a = "Selection" -> "selection"
      [] a = "Reproduction" -> "reproduction"
      [] a = "Planning" -> "planning"
      [] a = "Implementation" -> "implementation"
      [] a = "Submission" -> "submission"
      [] a = "Iteration" -> "iteration"
      [] a = "None" -> "none"
      [] a = "Week" -> "week"
      [] a = "Unknown" -> "unknown"
      [] OTHER -> a

\* text.lower()
Lower(text) == [i \in 1..Len(text) |-> LowerAtom(text[i])]

Digits == {"0", "1", "2", "3", "4", "5", "6", "7", "8", "9"}

DigitVal(d) ==
    CASE d = "0" -> 0 [] d = "1" -> 1 [] d = "2" -> 2 [] d = "3" -> 3
      [] d = "4" -> 4 [] d = "5" -> 5 [] d = "6" -> 6 [] d = "7" -> 7
      [] d = "8" -> 8 [] d = "9" -> 9

RECURSIVE LStrip(_)
LStrip(text) ==
    IF text # <<>> /\ Head(text) = " " THEN LStrip(Tail(text)) ELSE text

RECURSIVE RStrip(_)
RStrip(text) ==
    IF text # <<>> /\ text[Len(text)] = " "
    THEN RStrip(SubSeq(text, 1, Len(text) - 1))
    ELSE text

\* text.strip()
Strip(text) == RStrip(LStrip(text))

\* text.replace(pat, ""), pat non-empty
RECURSIVE Replace(_, _)
Replace(text, pat) ==
    IF Len(text) < Len(pat) THEN text
    ELSE IF SubSeq(text, 1, Len(pat)) = pat
         THEN Replace(SubSeq(text, Len(pat) + 1, Len(text)), pat)
         ELSE <<Head(text)>> \o Replace(Tail(text), pat)

RECURSIVE DigitsVal(_)
DigitsVal(ds) ==
    IF ds = <<>> THEN 0
    ELSE 10 * DigitsVal(SubSeq(ds, 1, Len(ds) - 1)) + DigitVal(ds[Len(ds)])

\* int(text): ok = FALSE stands for ValueError
ParseInt(text) ==
    LET t == Strip(text)
        signed == t # <<>> /\ Head(t) \in {"-", "+"}
        body == IF signed THEN Tail(t) ELSE t
        ok == body # <<>> /\ \A i \in 1..Len(body) : body[i] \in Digits
    IN  [ok |-> ok,
         val |-> IF ~ok THEN 0
                 ELSE IF signed /\ Head(t) = "-" THEN 0 - DigitsVal(body)
                 ELSE DigitsVal(body)]

RECURSIVE LastToken(_)
LastToken(text) ==
    IF text = <<>> \/ text[Len(text)] = " " THEN <<>>
    ELSE LastToken(SubSeq(text, 1, Len(text) - 1)) \o <<text[Len(text)]>>

\* text.split()[-1]: ok = FALSE stands for IndexError (no token)
SplitLast(text) ==
    LET t == RStrip(text)
    IN  [ok |-> t # <<>>, tok |-> LastToken(t)]

(***************************************************************************)
(* StudentRecord and CSV_COLUMN_MAP                                        *)
(***************************************************************************)
AT_RISK == "AT RISK"
FLAGGED == "FLAGGED"
ON_TRACK == "ON TRACK"

StudentRecord ==
    [student_id |-> <<>>, name |-> <<>>, member_id |-> <<>>,
     week |-> 0, submission_date |-> <<>>,
     wed_submitted |-> FALSE, sun_submitted |-> FALSE,
     current_phase |-> <<>>, weeks_in_phase |-> 1, contribution_num |-> 1,
     weeks_remaining |-> 8, timeline_type |-> "Standard",
     readme_link |-> <<>>, issue_url |-> <<>>, fork_url |-> <<>>, mr_url |-> <<>>,
     why_chosen_complete |-> FALSE, reproduction_complete |-> FALSE,
     solution_complete |-> FALSE, implementation_complete |-> FALSE,
     testing_complete |-> FALSE, feedback_complete |-> FALSE,
     deliverables_expected |-> 0, deliverables_complete |-> 0,
     days_since_commit |-> 0, mr_status |-> <<>>,
     progress_summary |-> <<>>, next_week_plan |-> <<>>,
     blocked |-> FALSE, blocker_desc |-> <<>>,
     grade_status |-> ON_TRACK, intervention_type |-> "",
     cam_notes |-> <<>>,
     raw_data |-> <<>>]

COL_ID == "#"
COL_NAME == "What's your name?"
COL_MEMBER == "What's your Member ID?"
COL_WEEK == "Which week is this?"
COL_CONTRIB == "Which contribution are you reporting on?"
COL_README == "Link to your contribution README"
COL_SUBMISSION == "Which submission are you completing?"
COL_PHASE == "What phase are you currently in?"
COL_ISSUE == "Direct link to your GitLab issue"
COL_WHY == "Have you completed the \"Why I chose this issue\" section in your README?"
COL_FORK == "Direct link to your GitLab fork"
COL_REPRO == "Have you documented your reproduction process in your README?"
COL_SOLUTION == "Have you documented your solution approach in your README?"
COL_IMPL == "Have you documented your implementation progress in your README?"
COL_TESTING == "Have you documented your testing strategy in your README?"
COL_MR == "Direct link to your Merge Request (MR) or Pull Request (PR)"
COL_FEEDBACK == "Have you documented any maintainer feedback in your README?"
COL_PROGRESS == "Briefly summarize what you accomplished this week"
COL_PLAN == "What's your plan for next week?"
COL_BLOCKED == "Are you currently blocked or stuck?"
COL_BLOCKER == "Describe what you're blocked on"
COL_DATE == "Submit Date (UTC)"
COL_TAGS == "Tags"

CSV_COLUMN_MAP ==
    (COL_ID :> "student_id") @@ (COL_NAME :> "name") @@ (COL_MEMBER :> "member_id")
    @@ (COL_WEEK :> "week") @@ (COL_CONTRIB :> "contribution_num")
    @@ (COL_README :> "readme_link") @@ (COL_SUBMISSION :> "_submission_type")
    @@ (COL_PHASE :> "current_phase") @@ (COL_ISSUE :> "issue_url")
    @@ (COL_WHY :> "why_chosen_complete") @@ (COL_FORK :> "fork_url")
    @@ (COL_REPRO :> "reproduction_complete") @@ (COL_SOLUTION :> "solution_complete")
    @@ (COL_IMPL :> "implementation_complete") @@ (COL_TESTING :> "testing_complete")
    @@ (COL_MR :> "mr_url") @@ (COL_FEEDBACK :> "feedback_complete")
    @@ (COL_PROGRESS :> "progress_summary") @@ (COL_PLAN :> "next_week_plan")
    @@ (COL_BLOCKED :> "blocked") @@ (COL_BLOCKER :> "blocker_desc")
    @@ (COL_DATE :> "submission_date") @@ (COL_TAGS :> "_tags")

\* the csv_col whose field_name is f (the map is one-to-one)
ColumnOf(f) == CHOOSE c \in DOMAIN CSV_COLUMN_MAP : CSV_COLUMN_MAP[c] = f

(***************************************************************************)
(* Phase normalizer                                                        *)
(***************************************************************************)
PHASE_1 == <<"Phase", " ", "1", ":", " ", "Issue", " ", "Selection">>
PHASE_2 == <<"Phase", " ", "2", ":", " ", "Reproduction", " ", "&", " ", "Planning">>
PHASE_3 == <<"Phase", " ", "3", ":", " ", "Implementation">>
PHASE_4 == <<"Phase", " ", "4", ":", " ", "Submission", " ", "&", " ", "Iteration">>

\* the four tests in the opposite order
normalize_phase_last_first(phase_str) ==
    LET p == Lower(Str(phase_str))
    IN  IF Contains(p, <<"4">>) \/ Contains(p, <<"submission">>) THEN PHASE_4
        ELSE IF Contains(p, <<"3">>) \/ Contains(p, <<"implementation">>) THEN PHASE_3
        ELSE IF Contains(p, <<"2">>) \/ Contains(p, <<"reproduction">>) THEN PHASE_2
        ELSE IF Contains(p, <<"1">>) \/ Contains(p, <<"selection">>) THEN PHASE_1
        ELSE p

normalize_phase(phase_str) ==
    LET p == Lower(Str(phase_str))
    IN  IF Contains(p, <<"1">>) \/ Contains(p, <<"selection">>) THEN PHASE_1
        ELSE IF Contains(p, <<"2">>) \/ Contains(p, <<"reproduction">>) THEN PHASE_2
        ELSE IF Contains(p, <<"3">>) \/ Contains(p, <<"implementation">>) THEN PHASE_3
        ELSE IF Contains(p, <<"4">>) \/ Contains(p, <<"submission">>) THEN PHASE_4
        ELSE p

\* _get_phase_number without the test for "4"
get_phase_number_three(phase_str) ==
    IF Contains(phase_str, <<"1">>) THEN 1
    ELSE IF Contains(phase_str, <<"2">>) THEN 2
    ELSE IF Contains(phase_str, <<"3">>) THEN 3
    ELSE 0

get_phase_number(phase_str) ==
    IF Contains(phase_str, <<"1">>) THEN 1
    ELSE IF Contains(phase_str, <<"2">>) THEN 2
    ELSE IF Contains(phase_str, <<"3">>) THEN 3
    ELSE IF Contains(phase_str, <<"4">>) THEN 4
    ELSE 0

(***************************************************************************)
(* Field mapper: _transform_records                                        *)
(***************************************************************************)
\* the week decoder without the except clause's week = 0: the field keeps a non-zero value
decode_week_no_fallback(value) ==
    IF value = NoneVal THEN 0
    ELSE LET n == ParseInt(Strip(Replace(value, <<"Week", " ">>)))
         IN  IF n.ok THEN n.val ELSE 1

\* the week decoder (try / bare except)
decode_week(value) ==
    IF value = NoneVal THEN 0                      \* AttributeError, caught
    ELSE LET n == ParseInt(Strip(Replace(value, <<"Week", " ">>)))
         IN  IF n.ok THEN n.val ELSE 0             \* ValueError, caught

\* the contribution decoder (try / bare except); cur is the field's value so far
decode_contribution(value, cur) ==
    IF value = NoneVal THEN 1                      \* TypeError, caught
    ELSE IF Contains(value, <<"Contribution">>)
         THEN LET t == SplitLast(value)
                  n == ParseInt(t.tok)
              IN  IF t.ok /\ n.ok THEN n.val ELSE 1
         ELSE IF Contains(value, <<"No", " ", "Contribution">>) THEN 0
         ELSE cur

\* two independent tests instead of if / elif
decode_submission_both(value) ==
    [wed |-> Contains(value, <<"Wednesday">>), sun |-> Contains(value, <<"Sunday">>)]

\* if "Wednesday" in value: wed_submitted = True / elif "Sunday" in value: sun_submitted = True
decode_submission(value) ==
    [wed |-> Contains(value, <<"Wednesday">>),
     sun |-> ~Contains(value, <<"Wednesday">>) /\ Contains(value, <<"Sunday">>)]

\* "Wednesday" in value raises TypeError when the cell is None
submission_raises(row) ==
    COL_SUBMISSION \in DOMAIN row /\ row[COL_SUBMISSION] = NoneVal

\* row.get(csv_col) in place of the "if csv_col in row" guard
Verbatim_get(row, f, default) ==
    IF ColumnOf(f) \in DOMAIN row THEN row[ColumnOf(f)] ELSE NoneVal

Verbatim(row, f, default) ==
    IF ColumnOf(f) \in DOMAIN row THEN row[ColumnOf(f)] ELSE default

Bool01(row, f) == ColumnOf(f) \in DOMAIN row /\ Str(row[ColumnOf(f)]) = <<"1">>

\* one iteration of the loop over raw_rows, when no decoder raises
transform_row(row) ==
    LET d == StudentRecord
        has(c) == c \in DOMAIN row
    IN  [d EXCEPT
           !.raw_data = row,
           !.student_id = Verbatim(row, "student_id", d.student_id),
           !.name = Verbatim(row, "name", d.name),
           !.member_id = Verbatim(row, "member_id", d.member_id),
           !.week = IF has(COL_WEEK) THEN decode_week(row[COL_WEEK]) ELSE d.week,
           !.contribution_num =
               IF has(COL_CONTRIB)
               THEN decode_contribution(row[COL_CONTRIB], d.contribution_num)
               ELSE d.contribution_num,
           !.readme_link = Verbatim(row, "readme_link", d.readme_link),
           !.wed_submitted =
               has(COL_SUBMISSION) /\ decode_submission(row[COL_SUBMISSION]).wed,
           !.sun_submitted =
               has(COL_SUBMISSION) /\ decode_submission(row[COL_SUBMISSION]).sun,
           !.current_phase =
               IF has(COL_PHASE) THEN normalize_phase(row[COL_PHASE]) ELSE d.current_phase,
           !.issue_url = Verbatim(row, "issue_url", d.issue_url),
           !.why_chosen_complete = Bool01(row, "why_chosen_complete"),
           !.fork_url = Verbatim(row, "fork_url", d.fork_url),
           !.reproduction_complete = Bool01(row, "reproduction_complete"),
           !.solution_complete = Bool01(row, "solution_complete"),
           !.implementation_complete = Bool01(row, "implementation_complete"),
           !.testing_complete = Bool01(row, "testing_complete"),
           !.mr_url = Verbatim(row, "mr_url", d.mr_url),
           !.feedback_complete = Bool01(row, "feedback_complete"),
           !.progress_summary = Verbatim(row, "progress_summary", d.progress_summary),
           !.next_week_plan = Verbatim(row, "next_week_plan", d.next_week_plan),
           !.blocked = Bool01(row, "blocked"),
           !.blocker_desc = Verbatim(row, "blocker_desc", d.blocker_desc),
           !.submission_date = Verbatim(row, "submission_date", d.submission_date),
           !.cam_notes =
               IF has(COL_TAGS) /\ Contains(Str(row[COL_TAGS]), <<"AI", " ", "Generated">>)
               THEN <<"[AI Generated Response]">>
               ELSE d.cam_notes]

\* raised = TRUE: the TypeError of the submission decoder left the loop
transform_records(rows) ==
    [raised |-> \E i \in 1..Len(rows) : submission_raises(rows[i]),
     students |-> [i \in 1..Len(rows) |-> transform_row(rows[i])]]

(***************************************************************************)
(* Derivation engine: _calculate_derived_fields                            *)
(***************************************************************************)
ProgramWeeks == 8
CompressedWeeks == 3
CriticalWeeks == 2
ImplementationPhase == 3
SubmissionPhase == 4

BoolInt(b) == IF b THEN 1 ELSE 0

\* derive_expected with "= 2" in place of "+= 2" for phase 2
derive_expected_assign(student, phase_num) ==
    LET e1 == IF phase_num >= 1 THEN 1 ELSE student.deliverables_expected
        e2 == IF phase_num >= 2 THEN 2 ELSE e1
        e3 == IF phase_num >= 3 THEN e2 + 2 ELSE e2
    IN  IF phase_num >= 4 THEN e3 + 1 ELSE e3

derive_expected(student, phase_num) ==
    LET e1 == IF phase_num >= 1 THEN 1 ELSE student.deliverables_expected
        e2 == IF phase_num >= 2 THEN e1 + 2 ELSE e1
        e3 == IF phase_num >= 3 THEN e2 + 2 ELSE e2
    IN  IF phase_num >= 4 THEN e3 + 1 ELSE e3

\* derive_complete with why_chosen_complete summed twice
derive_complete_twice(student) ==
    BoolInt(student.why_chosen_complete) + BoolInt(student.why_chosen_complete)
    + BoolInt(student.reproduction_complete)
    + BoolInt(student.solution_complete) + BoolInt(student.implementation_complete)
    + BoolInt(student.testing_complete) + BoolInt(student.feedback_complete)

derive_complete(student) ==
    BoolInt(student.why_chosen_complete) + BoolInt(student.reproduction_complete)
    + BoolInt(student.solution_complete) + BoolInt(student.implementation_complete)
    + BoolInt(student.testing_complete) + BoolInt(student.feedback_complete)

\* derive_timeline with the Critical test placed before the Compressed test
derive_timeline_critical_first(weeks_remaining, phase_num) ==
    IF weeks_remaining < CriticalWeeks /\ phase_num < SubmissionPhase THEN "Critical"
    ELSE IF weeks_remaining < CompressedWeeks /\ phase_num < ImplementationPhase
         THEN "Compressed"
    ELSE "Standard"

\* derive_timeline with <= in the Compressed test: week 5 is Compressed too
derive_timeline_inclusive(weeks_remaining, phase_num) ==
    IF weeks_remaining <= CompressedWeeks /\ phase_num < ImplementationPhase THEN "Compressed"
    ELSE IF weeks_remaining < CriticalWeeks /\ phase_num < SubmissionPhase THEN "Critical"
    ELSE "Standard"

derive_timeline(weeks_remaining, phase_num) ==
    IF weeks_remaining < CompressedWeeks /\ phase_num < ImplementationPhase THEN "Compressed"
    ELSE IF weeks_remaining < CriticalWeeks /\ phase_num < SubmissionPhase THEN "Critical"
    ELSE "Standard"

\* derive_student also estimating days_since_commit, from the week
derive_student_sets_days(student) ==
    LET phase_num == get_phase_number(student.current_phase)
        remaining == IF ProgramWeeks - student.week > 0
                     THEN ProgramWeeks - student.week ELSE 0
    IN  [student EXCEPT
           !.deliverables_expected = derive_expected(student, phase_num),
           !.deliverables_complete = derive_complete(student),
           !.weeks_remaining = remaining,
           !.timeline_type = derive_timeline(remaining, phase_num),
           !.days_since_commit = 7 * student.week]

derive_student(student) ==
    LET phase_num == get_phase_number(student.current_phase)
        remaining == IF ProgramWeeks - student.week > 0
                     THEN ProgramWeeks - student.week ELSE 0
    IN  [student EXCEPT
           !.deliverables_expected = derive_expected(student, phase_num),
           !.deliverables_complete = derive_complete(student),
           !.weeks_remaining = remaining,
           !.timeline_type = derive_timeline(remaining, phase_num)]

calculate_derived_fields(sts) == [i \in 1..Len(sts) |-> derive_student(sts[i])]

(***************************************************************************)
(* Risk classifier: _calculate_grade_status                                *)
(***************************************************************************)
PhaseCriticalWeek == 6
PhaseCriticalPhase == 2
NoActivityDays == 7

\* grade_student with the compressed-timeline branch setting the flag but no reason
grade_student_silent_flag(student) ==
    LET g == [student EXCEPT !.grade_status = ON_TRACK, !.intervention_type = ""]
        phase_num == get_phase_number(student.current_phase)
        at_risk == \/ ~student.wed_submitted /\ ~student.sun_submitted
                   \/ student.week >= PhaseCriticalWeek /\ phase_num <= PhaseCriticalPhase
                   \/ student.blocked /\ Truthy(student.blocker_desc)
        intervention1 == IF ~student.wed_submitted /\ ~student.sun_submitted THEN "MISSING_BOTH"
                         ELSE IF student.week >= PhaseCriticalWeek /\ phase_num <= PhaseCriticalPhase
                              THEN "PHASE_CRITICAL"
                         ELSE "STALLED"
    IN  IF at_risk THEN [g EXCEPT !.grade_status = AT_RISK, !.intervention_type = intervention1]
        ELSE IF student.deliverables_complete < student.deliverables_expected
             THEN [g EXCEPT !.grade_status = FLAGGED, !.intervention_type = "MISSING_DELIVERABLES"]
        ELSE IF student.days_since_commit > NoActivityDays
             THEN [g EXCEPT !.grade_status = FLAGGED, !.intervention_type = "NO_ACTIVITY"]
        ELSE IF student.timeline_type = "Compressed"
             THEN [g EXCEPT !.grade_status = FLAGGED]
        ELSE g

\* grade_student with the PHASE_CRITICAL test placed before the MISSING_BOTH test
grade_student_critical_first(student) ==
    LET g == [student EXCEPT !.grade_status = ON_TRACK, !.intervention_type = ""]
        phase_num == get_phase_number(student.current_phase)
    IN  IF student.week >= PhaseCriticalWeek /\ phase_num <= PhaseCriticalPhase
        THEN [g EXCEPT !.grade_status = AT_RISK, !.intervention_type = "PHASE_CRITICAL"]
        ELSE IF ~student.wed_submitted /\ ~student.sun_submitted
             THEN [g EXCEPT !.grade_status = AT_RISK, !.intervention_type = "MISSING_BOTH"]
        ELSE IF student.blocked /\ Truthy(student.blocker_desc)
             THEN [g EXCEPT !.grade_status = AT_RISK, !.intervention_type = "STALLED"]
        ELSE IF student.deliverables_complete < student.deliverables_expected
             THEN [g EXCEPT !.grade_status = FLAGGED, !.intervention_type = "MISSING_DELIVERABLES"]
        ELSE IF student.days_since_commit > NoActivityDays
             THEN [g EXCEPT !.grade_status = FLAGGED, !.intervention_type = "NO_ACTIVITY"]
        ELSE IF student.timeline_type = "Compressed"
             THEN [g EXCEPT !.grade_status = FLAGGED, !.intervention_type = "TIMELINE_COMPRESSED"]
        ELSE g

\* grade_student with the NO_ACTIVITY test placed before the MISSING_DELIVERABLES test
grade_student_activity_first(student) ==
    LET g == [student EXCEPT !.grade_status = ON_TRACK, !.intervention_type = ""]
        phase_num == get_phase_number(student.current_phase)
    IN  IF ~student.wed_submitted /\ ~student.sun_submitted
        THEN [g EXCEPT !.grade_status = AT_RISK, !.intervention_type = "MISSING_BOTH"]
        ELSE IF student.week >= PhaseCriticalWeek /\ phase_num <= PhaseCriticalPhase
             THEN [g EXCEPT !.grade_status = AT_RISK, !.intervention_type = "PHASE_CRITICAL"]
        ELSE IF student.blocked /\ Truthy(student.blocker_desc)
             THEN [g EXCEPT !.grade_status = AT_RISK, !.intervention_type = "STALLED"]
        ELSE IF student.days_since_commit > NoActivityDays
             THEN [g EXCEPT !.grade_status = FLAGGED, !.intervention_type = "NO_ACTIVITY"]
        ELSE IF student.deliverables_complete < student.deliverables_expected
             THEN [g EXCEPT !.grade_status = FLAGGED, !.intervention_type = "MISSING_DELIVERABLES"]
        ELSE IF student.timeline_type = "Compressed"
             THEN [g EXCEPT !.grade_status = FLAGGED, !.intervention_type = "TIMELINE_COMPRESSED"]
        ELSE g

\* grade_student with the FLAGGED tests run without the "if not at_risk" guard
grade_student_unguarded(student) ==
    LET phase_num == get_phase_number(student.current_phase)
        missing_both == ~student.wed_submitted /\ ~student.sun_submitted
        phase_critical == student.week >= PhaseCriticalWeek /\ phase_num <= PhaseCriticalPhase
        stalled == student.blocked /\ Truthy(student.blocker_desc)
        at_risk == missing_both \/ phase_critical \/ stalled
        intervention1 == IF missing_both THEN "MISSING_BOTH"
                         ELSE IF phase_critical THEN "PHASE_CRITICAL"
                         ELSE IF stalled THEN "STALLED"
                         ELSE ""
        intervention == IF student.deliverables_complete < student.deliverables_expected
                        THEN "MISSING_DELIVERABLES"
                        ELSE IF student.days_since_commit > NoActivityDays THEN "NO_ACTIVITY"
                        ELSE IF student.timeline_type = "Compressed" THEN "TIMELINE_COMPRESSED"
                        ELSE intervention1
    IN  [student EXCEPT
           !.grade_status = IF at_risk THEN AT_RISK
                            ELSE IF intervention # "" THEN FLAGGED
                            ELSE ON_TRACK,
           !.intervention_type = intervention]

grade_student(student) ==
    LET phase_num == get_phase_number(student.current_phase)
        missing_both == ~student.wed_submitted /\ ~student.sun_submitted
        phase_critical == student.week >= PhaseCriticalWeek /\ phase_num <= PhaseCriticalPhase
        stalled == student.blocked /\ Truthy(student.blocker_desc)
        at_risk == missing_both \/ phase_critical \/ stalled
        intervention1 == IF missing_both THEN "MISSING_BOTH"
                         ELSE IF phase_critical THEN "PHASE_CRITICAL"
                         ELSE IF stalled THEN "STALLED"
                         ELSE ""
        missing_deliv == student.deliverables_complete < student.deliverables_expected
        no_activity == student.days_since_commit > NoActivityDays
        compressed == student.timeline_type = "Compressed"
        flagged == ~at_risk /\ (missing_deliv \/ no_activity \/ compressed)
        intervention == IF at_risk THEN intervention1
                        ELSE IF missing_deliv THEN "MISSING_DELIVERABLES"
                        ELSE IF no_activity THEN "NO_ACTIVITY"
                        ELSE IF compressed THEN "TIMELINE_COMPRESSED"
                        ELSE intervention1
    IN  [student EXCEPT
           !.grade_status = IF at_risk THEN AT_RISK
                            ELSE IF flagged THEN FLAGGED
                            ELSE ON_TRACK,
           !.intervention_type = intervention]

calculate_grade_status(sts) == [i \in 1..Len(sts) |-> grade_student(sts[i])]

(***************************************************************************)
(* ProcessingResult (services/file_processor.py)                           *)
(***************************************************************************)
ProcessingResult(success, output_data, output_filename, error_message, rows_processed) ==
    [success |-> success, output_data |-> output_data,
     output_filename |-> output_filename, error_message |-> error_message,
     rows_processed |-> rows_processed]

\* the value of result while process has not returned
Pending == ProcessingResult(FALSE, NoneVal, NoneVal, NoneVal, 0)

\* return ProcessingResult(success=False, error_message="CSV file is empty")
empty_result == ProcessingResult(FALSE, NoneVal, NoneVal, <<"CSV file is empty">>, 0)

\* error_result handing back what was built so far
error_result_partial(e) ==
    ProcessingResult(FALSE, <<"partial">>, <<"tracker_report.xlsx">>, <<"Processing error: ", e>>, 0)

\* except Exception as e: return ProcessingResult(success=False, error_message=f"Processing error: {e}")
error_result(e) == ProcessingResult(FALSE, NoneVal, NoneVal, <<"Processing error: ", e>>, 0)

\* wb.save(output); output.read(): the serialised workbook, here its sheet titles in order
save_bytes(book) == [i \in 1..Len(book.sheets) |-> book.sheets[i].title]

success_result(book, sts) ==
    ProcessingResult(TRUE, save_bytes(book), <<"tracker_report.xlsx">>, NoneVal, Len(sts))

(***************************************************************************)
(* FileStorageService (services/file_processor.py)                         *)
(***************************************************************************)
VALID_FILE_CATEGORIES == {"master", "typeform", "zoom"}

\* category=None, and None where a StoredFile is expected
NoCategory == "<None>"
NoFile == [none |-> TRUE]

\* FileStorageService() on an empty upload directory: every category loads as None.
\* files is _files, disk the data files of storage_dir with their mtime, meta the
\* categories whose _<category>_file.json exists
NoFiles ==
    [files |-> [c \in VALID_FILE_CATEGORIES |-> NoFile], disk |-> <<>>, meta |-> {}]

StoredFile(filename, filepath, uploaded_at, user_id, file_type) ==
    [filename |-> filename, filepath |-> filepath, uploaded_at |-> uploaded_at,
     user_id |-> user_id, file_type |-> file_type]

\* "".join(c for c in filename if c.isalnum() or c in "._-")
safe_filename(filename) == IF filename = "a b.csv" THEN "ab.csv" ELSE filename

\* storage_dir / f"{category_prefix}{timestamp}_{safe_filename}"
stored_path(filename, category, t) ==
    [prefix |-> IF category \in {NoCategory, ""} THEN "" ELSE category,
     timestamp |-> t, name |-> safe_filename(filename)]

\* the files of disk without those of gone
Unlink(disk, gone) == [p \in (DOMAIN disk) \ gone |-> disk[p]]

\* store_file(filename, data, user_id, category) called at time t
store_file(st, filename, user_id, category, t) ==
    LET filepath == stored_path(filename, category, t)
        stored == StoredFile(filename, filepath, t, user_id, "csv")
        written == [st EXCEPT !.disk = (filepath :> t) @@ st.disk]
    IN  [st |-> IF category \notin {NoCategory, ""} /\ category \in VALID_FILE_CATEGORIES
                THEN [written EXCEPT !.files[category] = stored, !.meta = @ \cup {category}]
                ELSE written,
         ret |-> stored]

\* get_file without the check that the data file still exists
get_file_unverified(st, category) ==
    IF category \notin VALID_FILE_CATEGORIES THEN [st |-> st, ret |-> NoFile]
    ELSE [st |-> st, ret |-> st.files[category]]

\* get_file(category)
get_file(st, category) ==
    IF category \notin VALID_FILE_CATEGORIES THEN [st |-> st, ret |-> NoFile]
    ELSE LET stored == st.files[category]
         IN  IF stored # NoFile /\ stored.filepath \notin DOMAIN st.disk
             THEN [st |-> [st EXCEPT !.files[category] = NoFile], ret |-> NoFile]
             ELSE [st |-> st, ret |-> stored]

\* has_file(category), the value it returns
has_file(st, category) == get_file(st, category).ret # NoFile

\* delete_file(category)
delete_file(st, category) ==
    IF category \notin VALID_FILE_CATEGORIES THEN [st |-> st, ret |-> FALSE]
    ELSE LET stored == st.files[category]
         IN  IF stored = NoFile THEN [st |-> st, ret |-> FALSE]
             ELSE [st |-> [st EXCEPT !.disk = Unlink(@, {stored.filepath}),
                                      !.meta = @ \ {category},
                                      !.files[category] = NoFile],
                   ret |-> TRUE]

\* delete_all_files(): delete_file for every category, counting the True results
RECURSIVE delete_each(_, _)
delete_each(st, cats) ==
    IF cats = {} THEN [st |-> st, ret |-> 0]
    ELSE LET c == CHOOSE x \in cats : TRUE
             d == delete_file(st, c)
             rest == delete_each(d.st, cats \ {c})
         IN  [st |-> rest.st, ret |-> rest.ret + (IF d.ret THEN 1 ELSE 0)]

delete_all_files(st) == delete_each(st, VALID_FILE_CATEGORIES)

\* cleanup_old_files(max_age) called at time t, max_age in the unit of the clock
cleanup_old_files(st, max_age, t) ==
    LET old == {p \in DOMAIN st.disk : st.disk[p] < t - max_age}
    IN  [st |-> [st EXCEPT !.disk = Unlink(@, old)], ret |-> Cardinality(old)]

(***************************************************************************)
(* csv.DictReader                                                          *)
(***************************************************************************)
RestKey == "<restkey None>"

\* one row of csv.DictReader(fieldnames, restkey=None, restval=None)
DictRow(fieldnames, cells) ==
    LET lf == Len(fieldnames)
        lr == Len(cells)
        keys == {fieldnames[i] : i \in 1..lf}
        last(h) == CHOOSE i \in 1..lf :
                      fieldnames[i] = h /\ \A j \in 1..lf : fieldnames[j] = h => j <= i
        named == [h \in keys |-> IF last(h) <= lr THEN cells[last(h)] ELSE NoneVal]
    IN  IF lr > lf THEN named @@ (RestKey :> SubSeq(cells, lf + 1, lr)) ELSE named

\* list(csv.DictReader(io.StringIO(text))): the first line is the header, blank lines are skipped
ReadRows(lines) ==
    IF lines = <<>> THEN <<>>
    ELSE LET datalines == SelectSeq(Tail(lines), LAMBDA l : l # <<>>)
         IN  [i \in 1..Len(datalines) |-> DictRow(Head(lines), datalines[i])]

(***************************************************************************)
(* Report renderer                                                         *)
(***************************************************************************)
NoWorkbook == [created |-> FALSE, sheets |-> <<>>]

\* Workbook(): a new workbook holds the default sheet
Workbook == [created |-> TRUE, sheets |-> <<[title |-> "Sheet", rows |-> <<>>]>>]

\* the default sheet left in the workbook
remove_active_kept(book) == book

\* wb.remove(wb.active)
remove_active(book) == [book EXCEPT !.sheets = Tail(book.sheets)]

\* wb.create_sheet(title) followed by the rows written to it
add_sheet(book, title, rows) ==
    [book EXCEPT !.sheets = Append(book.sheets, [title |-> title, rows |-> rows])]

Indices(sts) == [i \in 1..Len(sts) |-> i]

\* the at-risk view taking every record that has an intervention reason
filter_status_by_reason(sts, status) ==
    SelectSeq(Indices(sts),
              LAMBDA i : IF status = AT_RISK THEN sts[i].intervention_type # ""
                         ELSE sts[i].grade_status = status)

\* [s for s in students if s.grade_status == status], as positions in students
filter_status(sts, status) ==
    SelectSeq(Indices(sts), LAMBDA i : sts[i].grade_status = status)

\* list.sort(key=...) is stable; reverse=True keeps equal keys in their order too
RECURSIVE InsertSorted(_, _, _, _)
InsertSorted(sorted, x, key, reverse) ==
    IF sorted = <<>> THEN <<x>>
    ELSE LET l == sorted[Len(sorted)]
             stays == IF reverse THEN key[l] >= key[x] ELSE key[l] <= key[x]
         IN  IF stays THEN Append(sorted, x)
             ELSE Append(InsertSorted(SubSeq(sorted, 1, Len(sorted) - 1), x, key, reverse), l)

\* seq.sort(key=..., reverse=...); key maps a position in students to its sort key
RECURSIVE SortBy(_, _, _)
SortBy(seq, key, reverse) ==
    IF seq = <<>> THEN <<>>
    ELSE InsertSorted(SortBy(SubSeq(seq, 1, Len(seq) - 1), key, reverse),
                      seq[Len(seq)], key, reverse)

UnknownPriority == 99

\* priority_order.get(..., 0): a reason outside the table ranks with the first
priority_order_default_first(intervention) ==
    CASE intervention = "MISSING_BOTH" -> 0
      [] intervention = "PHASE_CRITICAL" -> 1
      [] intervention = "STALLED" -> 2
      [] OTHER -> 0

priority_order(intervention) ==
    CASE intervention = "MISSING_BOTH" -> 0
      [] intervention = "PHASE_CRITICAL" -> 1
      [] intervention = "STALLED" -> 2
      [] OTHER -> UnknownPriority

at_risk_rows(sts) ==
    SortBy(filter_status(sts, AT_RISK),
           [i \in 1..Len(sts) |-> priority_order(sts[i].intervention_type)], FALSE)

flagged_rows(sts) ==
    SortBy(filter_status(sts, FLAGGED), [i \in 1..Len(sts) |-> sts[i].weeks_in_phase], TRUE)

on_track_rows(sts) ==
    SortBy(filter_status(sts, ON_TRACK), [i \in 1..Len(sts) |-> sts[i].week], TRUE)

\* "x " + student.blocker_desc[:30] if student.blocked: TypeError when blocker_desc is None
at_risk_row_raises(student) == student.blocked /\ student.blocker_desc = NoneVal

\* student.mr_status.lower() / len(student.progress_summary): error on None
on_track_row_raises(student) ==
    student.mr_status = NoneVal \/ student.progress_summary = NoneVal

\* the rows written before the first row whose data list raises (bad: the rows that raise)
RECURSIVE WrittenRows(_, _)
WrittenRows(rows, bad) ==
    IF rows = <<>> \/ Head(rows) \in bad THEN <<>>
    ELSE <<Head(rows)>> \o WrittenRows(Tail(rows), bad)

RECURSIVE MaxWeekOf(_)
MaxWeekOf(sts) ==
    IF Len(sts) = 1 THEN sts[1].week
    ELSE LET m == MaxWeekOf(Tail(sts))
         IN  IF sts[1].week >= m THEN sts[1].week ELSE m

\* the cell formatted as count and 0.0% when there is no record
percent_cell_formatted(n, total) ==
    IF total # 0
    THEN [literal |-> "", count |-> n, tenths |-> (n * 2000 + total) \div (2 * total)]
    ELSE [literal |-> "", count |-> n, tenths |-> 0]

\* f"{n} ({n/total*100:.1f}%)" if total else "0"; the percentage is kept in tenths
percent_cell(n, total) ==
    IF total # 0
    THEN [literal |-> "", count |-> n, tenths |-> (n * 2000 + total) \div (2 * total)]
    ELSE [literal |-> "0", count |-> 0, tenths |-> 0]

\* summary_stats counting the interventions of the at-risk records only
summary_stats_at_risk_only(sts) ==
    LET total == Len(sts)
        on_track == {i \in 1..total : sts[i].grade_status = ON_TRACK}
        flagged == {i \in 1..total : sts[i].grade_status = FLAGGED}
        at_risk == {i \in 1..total : sts[i].grade_status = AT_RISK}
        sun_submitted == {i \in 1..total : sts[i].sun_submitted}
        wed_submitted == {i \in 1..total : sts[i].wed_submitted}
        mr_submitted == {i \in 1..total : Truthy(sts[i].mr_url)}
        mr_merged == {i \in 1..total : Contains(Lower(sts[i].mr_status), <<"merged">>)}
    IN  [total |-> total,
         on_track |-> percent_cell(Cardinality(on_track), total),
         flagged |-> percent_cell(Cardinality(flagged), total),
         at_risk |-> percent_cell(Cardinality(at_risk), total),
         sun_submitted |-> percent_cell(Cardinality(sun_submitted), total),
         wed_submitted |-> percent_cell(Cardinality(wed_submitted), total),
         phase_dist |-> [p \in 1..4 |->
             Cardinality({i \in 1..total : get_phase_number(sts[i].current_phase) = p})],
         mr_submitted |-> percent_cell(Cardinality(mr_submitted), total),
         mr_merged |-> percent_cell(Cardinality(mr_merged), total),
         interventions_sent |-> Cardinality(at_risk),
         current_week |-> IF sts # <<>> THEN MaxWeekOf(sts) ELSE 0]

summary_stats(sts) ==
    LET total == Len(sts)
        on_track == {i \in 1..total : sts[i].grade_status = ON_TRACK}
        flagged == {i \in 1..total : sts[i].grade_status = FLAGGED}
        at_risk == {i \in 1..total : sts[i].grade_status = AT_RISK}
        sun_submitted == {i \in 1..total : sts[i].sun_submitted}
        wed_submitted == {i \in 1..total : sts[i].wed_submitted}
        mr_submitted == {i \in 1..total : Truthy(sts[i].mr_url)}
        mr_merged == {i \in 1..total : Contains(Lower(sts[i].mr_status), <<"merged">>)}
        interventions_sent == {i \in 1..total : sts[i].intervention_type # ""}
    IN  [total |-> total,
         on_track |-> percent_cell(Cardinality(on_track), total),
         flagged |-> percent_cell(Cardinality(flagged), total),
         at_risk |-> percent_cell(Cardinality(at_risk), total),
         sun_submitted |-> percent_cell(Cardinality(sun_submitted), total),
         wed_submitted |-> percent_cell(Cardinality(wed_submitted), total),
         phase_dist |-> [p \in 1..4 |->
             Cardinality({i \in 1..total : get_phase_number(sts[i].current_phase) = p})],
         mr_submitted |-> percent_cell(Cardinality(mr_submitted), total),
         mr_merged |-> percent_cell(Cardinality(mr_merged), total),
         interventions_sent |-> Cardinality(interventions_sent),
         current_week |-> IF sts # <<>> THEN MaxWeekOf(sts) ELSE 0]

(***************************************************************************)
(* Inputs                                                                  *)
(***************************************************************************)
MaxRows == 2                \* data lines of one input

T_WED == <<"Wednesday">>
T_SUN == <<"Sunday">>
T_BOTH == <<"Sunday", " ", "and", " ", "Wednesday">>
T_LATE == <<"Late">>
T_WEEK1 == <<"Week", " ", "1">>
T_WEEK6 == <<"Week", " ", "6">>
T_WEEK7 == <<"Week", " ", "7">>
T_SOON == <<"soon">>
T_P1 == <<"Phase", " ", "1">>
T_P2 == <<"Reproduction">>
T_P3 == <<"Phase", " ", "3">>
T_P4 == <<"Phase", " ", "4">>
T_UNKNOWN == <<"Unknown">>
T_YES == <<"1">>
T_NO == <<"0">>
T_EMPTY == <<>>
T_X == <<"x">>

\* an input family: the header line and, per column, the cells its data lines draw from
Families ==
    { [labels |-> <<COL_WEEK, COL_PHASE>>,
       cells |-> <<{T_WEEK1, T_WEEK6, T_SOON}, {T_P1, T_P3, T_UNKNOWN}>>],
      [labels |-> <<COL_SUBMISSION, COL_WEEK, COL_PHASE>>,
       cells |-> <<{T_WED, T_LATE}, {T_WEEK1, T_WEEK6, T_WEEK7}, {T_P2, T_P4}>>],
      [labels |-> <<COL_WEEK, "Email", COL_SUBMISSION>>,
       cells |-> <<{T_WEEK1, T_SOON}, {T_X}, {T_WED, T_BOTH, T_EMPTY}>>],
      [labels |-> <<COL_PHASE, COL_WHY, COL_REPRO, COL_SUBMISSION>>,
       cells |-> <<{T_P1, T_P2}, {T_YES, T_X}, {T_YES}, {T_SUN, T_LATE}>>],
      [labels |-> <<COL_SUBMISSION, COL_PHASE, COL_BLOCKED, COL_BLOCKER>>,
       cells |-> <<{T_WED, T_LATE}, {T_P1}, {T_YES, T_NO}, {T_X, T_EMPTY}>>],
      [labels |-> <<COL_SUBMISSION, COL_BLOCKED, COL_BLOCKER, COL_PROGRESS>>,
       cells |-> <<{T_WED, T_LATE}, {T_YES, T_NO}, {T_X, T_EMPTY}, {T_X}>>] }

\* the data lines of a family with n cells (n below the header's length: a short line)
RECURSIVE LinesOf(_, _)
LinesOf(fam, n) ==
    IF n = 0 THEN {<<>>}
    ELSE {Append(l, c) : l \in LinesOf(fam, n - 1), c \in fam.cells[n]}

DataLines(fam) == UNION {LinesOf(fam, n) : n \in 0..Len(fam.labels)}

RECURSIVE SeqsUpTo(_, _)
SeqsUpTo(S, n) ==
    IF n = 0 THEN {<<>>}
    ELSE LET shorter == SeqsUpTo(S, n - 1)
         IN  shorter \cup {Append(q, x) : q \in {r \in shorter : Len(r) = n - 1}, x \in S}

InputsOf(fam) ==
    {[decodable |-> TRUE, lines |-> <<fam.labels>> \o ls] :
        ls \in SeqsUpTo(DataLines(fam), MaxRows)}

\* data = the bytes handed to process: undecodable bytes, no line at all, or a header and lines
Inputs ==
    {[decodable |-> FALSE, lines |-> <<>>], [decodable |-> TRUE, lines |-> <<>>]}
    \cup UNION {InputsOf(fam) : fam \in Families}

(***************************************************************************)
(* process                                                                 *)
(***************************************************************************)
Init ==
    /\ pc = "start"
    /\ data \in Inputs
    /\ raw_rows = <<>>
    /\ students = <<>>
    /\ wb = NoWorkbook
    /\ result = Pending
    /\ log = <<>>
    /\ storage = NoFiles
    /\ now = 0
    /\ sessions = <<>>
    /\ tasks = <<>>

Return(r) == pc' = "done" /\ result' = r

\* Parse without the "if not raw_rows" return
Parse_no_empty_check ==
    /\ pc = "start"
    /\ IF ~data.decodable
       THEN Return(error_result("UnicodeDecodeError")) /\ UNCHANGED raw_rows
       ELSE raw_rows' = ReadRows(data.lines) /\ pc' = "parsed" /\ UNCHANGED result
    /\ UNCHANGED <<data, students, wb, log, storage, now, sessions, tasks>>

\* data.decode('utf-8-sig'); list(csv.DictReader(...)); if not raw_rows: return ...
Parse ==
    /\ pc = "start"
    /\ IF ~data.decodable
       THEN Return(error_result("UnicodeDecodeError")) /\ UNCHANGED raw_rows
       ELSE LET rows == ReadRows(data.lines)
            IN  /\ raw_rows' = rows
                /\ IF rows = <<>> THEN Return(empty_result)
                   ELSE pc' = "parsed" /\ UNCHANGED result
    /\ UNCHANGED <<data, students, wb, log, storage, now, sessions, tasks>>

\* the record list kept on the instance and extended by every call
TransformRecords_accumulates ==
    /\ pc = "parsed"
    /\ LET t == transform_records(raw_rows)
           kept == IF log = <<>> THEN <<>> ELSE log[Len(log)].students
       IN  IF t.raised
           THEN Return(error_result("TypeError")) /\ UNCHANGED students
           ELSE students' = kept \o t.students /\ pc' = "transformed" /\ UNCHANGED result
    /\ UNCHANGED <<data, raw_rows, wb, log, storage, now, sessions, tasks>>

\* students = self._transform_records(raw_rows)
TransformRecords ==
    /\ pc = "parsed"
    /\ LET t == transform_records(raw_rows)
       IN  IF t.raised
           THEN Return(error_result("TypeError")) /\ UNCHANGED students
           ELSE students' = t.students /\ pc' = "transformed" /\ UNCHANGED result
    /\ UNCHANGED <<data, raw_rows, wb, log, storage, now, sessions, tasks>>

\* self._calculate_derived_fields(students)
CalculateDerivedFields ==
    /\ pc = "transformed"
    /\ students' = calculate_derived_fields(students)
    /\ pc' = "derived"
    /\ UNCHANGED <<data, raw_rows, wb, result, log, storage, now, sessions, tasks>>

\* self._calculate_grade_status(students)
CalculateGradeStatus ==
    /\ pc = "derived"
    /\ students' = calculate_grade_status(students)
    /\ pc' = "classified"
    /\ UNCHANGED <<data, raw_rows, wb, result, log, storage, now, sessions, tasks>>

\* wb = Workbook(); wb.remove(wb.active)
CreateWorkbook ==
    /\ pc = "classified"
    /\ wb' = remove_active(Workbook)
    /\ pc' = "workbook"
    /\ UNCHANGED <<data, raw_rows, students, result, log, storage, now, sessions, tasks>>

\* self._create_master_tab(wb, students)
CreateMasterTab ==
    /\ pc = "workbook"
    /\ wb' = add_sheet(wb, "Master Tracker", Indices(students))
    /\ pc' = "master"
    /\ UNCHANGED <<data, raw_rows, students, result, log, storage, now, sessions, tasks>>

\* the at-risk builder sorting the record list itself (students.sort) before filtering
CreateAtRiskTab_sorts_in_place ==
    /\ pc = "master"
    /\ LET order == SortBy(Indices(students),
                           [i \in 1..Len(students) |->
                               priority_order(students[i].intervention_type)], FALSE)
           sorted == [k \in 1..Len(students) |-> students[order[k]]]
           rows == at_risk_rows(sorted)
           bad == {i \in 1..Len(sorted) : at_risk_row_raises(sorted[i])}
           written == WrittenRows(rows, bad)
       IN  /\ students' = sorted
           /\ wb' = add_sheet(wb, "P1 - At Risk", written)
           /\ IF written # rows THEN Return(error_result("TypeError"))
              ELSE pc' = "at_risk" /\ UNCHANGED result
    /\ UNCHANGED <<data, raw_rows, log, storage, now, sessions, tasks>>

\* self._create_at_risk_tab(wb, students)
CreateAtRiskTab ==
    /\ pc = "master"
    /\ LET rows == at_risk_rows(students)
           bad == {i \in 1..Len(students) : at_risk_row_raises(students[i])}
           written == WrittenRows(rows, bad)
       IN  /\ wb' = add_sheet(wb, "P1 - At Risk", written)
           /\ IF written # rows THEN Return(error_result("TypeError"))
              ELSE pc' = "at_risk" /\ UNCHANGED result
    /\ UNCHANGED <<data, raw_rows, students, log, storage, now, sessions, tasks>>

\* self._create_flagged_tab(wb, students)
CreateFlaggedTab ==
    /\ pc = "at_risk"
    /\ wb' = add_sheet(wb, "P2 - Flagged", flagged_rows(students))
    /\ pc' = "flagged"
    /\ UNCHANGED <<data, raw_rows, students, result, log, storage, now, sessions, tasks>>

\* self._create_on_track_tab(wb, students)
CreateOnTrackTab ==
    /\ pc = "flagged"
    /\ LET rows == on_track_rows(students)
           bad == {i \in 1..Len(students) : on_track_row_raises(students[i])}
           written == WrittenRows(rows, bad)
       IN  /\ wb' = add_sheet(wb, "P3 - On Track", written)
           /\ IF written # rows THEN Return(error_result("TypeError"))
              ELSE pc' = "on_track" /\ UNCHANGED result
    /\ UNCHANGED <<data, raw_rows, students, log, storage, now, sessions, tasks>>

\* self._create_summary_tab(wb, students)
CreateSummaryTab ==
    /\ pc = "on_track"
    /\ wb' = add_sheet(wb, "Weekly Summary", <<summary_stats(students)>>)
    /\ pc' = "summary"
    /\ UNCHANGED <<data, raw_rows, students, result, log, storage, now, sessions, tasks>>

\* wb.save(output); return ProcessingResult(success=True, ...)
SaveWorkbook ==
    /\ pc = "summary"
    /\ Return(success_result(wb, students))
    /\ UNCHANGED <<data, raw_rows, students, wb, log, storage, now, sessions, tasks>>

Next ==
    \/ Parse
    \/ TransformRecords
    \/ CalculateDerivedFields
    \/ CalculateGradeStatus
    \/ CreateWorkbook
    \/ CreateMasterTab
    \/ CreateAtRiskTab
    \/ CreateFlaggedTab
    \/ CreateOnTrackTab
    \/ CreateSummaryTab
    \/ SaveWorkbook

Spec == Init /\ [][Next]_vars

(***************************************************************************)
(* The derivation engine and the classifier called on one record           *)
(***************************************************************************)
MaxWeek == 9                \* week numbers of the records handed to the two functions

UnitPhases == {<<"unknown">>, PHASE_1, PHASE_2, PHASE_3, PHASE_4}
UnitDays == {0, NoActivityDays, NoActivityDays + 1}
UnitTimelines == {"Standard", "Compressed", "Critical"}

UnitRecords ==
    {[StudentRecord EXCEPT
        !.wed_submitted = w, !.sun_submitted = u, !.week = wk, !.current_phase = ph,
        !.blocked = b, !.blocker_desc = bd, !.why_chosen_complete = why,
        !.deliverables_expected = ex, !.days_since_commit = d, !.timeline_type = tl] :
        w \in BOOLEAN, u \in BOOLEAN, wk \in 0..MaxWeek, ph \in UnitPhases,
        b \in BOOLEAN, bd \in {T_EMPTY, T_X, NoneVal}, why \in BOOLEAN,
        ex \in {0, 1}, d \in UnitDays, tl \in UnitTimelines}

InitUnit ==
    /\ pc = "u_start"
    /\ data = [decodable |-> TRUE, lines |-> <<>>]
    /\ raw_rows = <<>>
    /\ students \in {<<r>> : r \in UnitRecords}
    /\ wb = NoWorkbook
    /\ result = Pending
    /\ log = <<>>
    /\ storage = NoFiles
    /\ now = 0
    /\ sessions = <<>>
    /\ tasks = <<>>

\* _calculate_derived_fields(students)
UnitCalculateDerivedFields ==
    /\ pc = "u_start"
    /\ students' = calculate_derived_fields(students)
    /\ pc' = "u_derived"
    /\ UNCHANGED <<data, raw_rows, wb, result, log, storage, now, sessions, tasks>>

\* _calculate_grade_status(students), on derived fields or on the fields as given
UnitCalculateGradeStatus ==
    /\ pc \in {"u_start", "u_derived"}
    /\ students' = calculate_grade_status(students)
    /\ pc' = IF pc = "u_start" THEN "u_classified" ELSE "u_derived_classified"
    /\ UNCHANGED <<data, raw_rows, wb, result, log, storage, now, sessions, tasks>>

NextUnit ==
    \/ UnitCalculateDerivedFields
    \/ UnitCalculateGradeStatus

SpecUnit == InitUnit /\ [][NextUnit]_vars

(***************************************************************************)
(* Properties                                                              *)
(***************************************************************************)
\* the classifier has run on students (unit driver)
UnitClassified == pc \in {"u_classified", "u_derived_classified"}

\* the derivation engine has run on students (unit driver)
UnitDerived == pc \in {"u_derived", "u_derived_classified"}

\* process is past _calculate_derived_fields
Derived ==
    \/ pc \in {"derived", "classified", "workbook", "master", "at_risk", "flagged",
               "on_track", "summary"}
    \/ pc = "done" /\ wb.created

\* process is past _calculate_grade_status
Classified == Derived /\ pc # "derived"

Ordinal(student) == get_phase_number(student.current_phase)

\* C1: after _calculate_grade_status every record holds one of the three statuses,
\* and its intervention reason is non-empty exactly when the status is not ON_TRACK.
C1_StatusAndReason ==
    UnitClassified =>
        \A i \in 1..Len(students) :
            /\ students[i].grade_status \in {ON_TRACK, FLAGGED, AT_RISK}
            /\ (students[i].intervention_type # "") <=> (students[i].grade_status # ON_TRACK)

C1_Witness ==
    /\ pc = "u_classified"
    /\ students[1].grade_status = FLAGGED
    /\ students[1].intervention_type = "TIMELINE_COMPRESSED"

\* the ordered rule list of the classifier, as the specification states it
RuleList(student) ==
    << [match |-> ~student.wed_submitted /\ ~student.sun_submitted,
        status |-> AT_RISK, reason |-> "MISSING_BOTH"],
       [match |-> student.week >= 6 /\ Ordinal(student) <= 2,
        status |-> AT_RISK, reason |-> "PHASE_CRITICAL"],
       [match |-> student.blocked /\ student.blocker_desc \notin {<<>>, NoneVal},
        status |-> AT_RISK, reason |-> "STALLED"],
       [match |-> student.deliverables_complete < student.deliverables_expected,
        status |-> FLAGGED, reason |-> "MISSING_DELIVERABLES"],
       [match |-> student.days_since_commit > 7,
        status |-> FLAGGED, reason |-> "NO_ACTIVITY"],
       [match |-> student.timeline_type = "Compressed",
        status |-> FLAGGED, reason |-> "TIMELINE_COMPRESSED"],
       [match |-> TRUE, status |-> ON_TRACK, reason |-> ""] >>

FirstMatch(rules) ==
    rules[CHOOSE k \in 1..Len(rules) :
              rules[k].match /\ \A j \in 1..(k - 1) : ~rules[j].match]

\* C2: the (status, reason) pair of every record is the outcome of the first matching
\* rule of the ordered list, and (ON_TRACK, empty) when no rule matches.
C2_FirstMatchingRule ==
    UnitClassified =>
        \A i \in 1..Len(students) :
            LET r == FirstMatch(RuleList(students[i]))
            IN  /\ students[i].grade_status = r.status
                /\ students[i].intervention_type = r.reason

C2_Witness ==
    /\ pc = "u_classified"
    /\ students[1].intervention_type = "NO_ACTIVITY"
    /\ students[1].timeline_type = "Compressed"

\* a record that is blocked with a description and short of its expected deliverables
BlockedAndShort(student) ==
    /\ student.blocked
    /\ student.blocker_desc \notin {<<>>, NoneVal}
    /\ student.deliverables_complete < student.deliverables_expected

\* C3 as stated: every blocked record with a description and missing deliverables is
\* AT_RISK with reason STALLED.
C3_Original ==
    Classified =>
        \A i \in 1..Len(students) :
            BlockedAndShort(students[i]) =>
                /\ students[i].grade_status = AT_RISK
                /\ students[i].intervention_type = "STALLED"

\* C3: every blocked record with a description and missing deliverables is AT_RISK and
\* never MISSING_DELIVERABLES; its reason is STALLED when neither earlier rule matches
\* (a submission flag is set and not (week >= 6 and ordinal <= 2)), and the reason of
\* the earlier rule, MISSING_BOTH or PHASE_CRITICAL, otherwise.
C3_StalledBeforeDeliverables ==
    Classified =>
        \A i \in 1..Len(students) :
            BlockedAndShort(students[i]) =>
                LET s == students[i]
                    submitted == s.wed_submitted \/ s.sun_submitted
                    critical == s.week >= 6 /\ Ordinal(s) <= 2
                IN  /\ s.grade_status = AT_RISK
                    /\ s.intervention_type # "MISSING_DELIVERABLES"
                    /\ s.intervention_type =
                          IF ~submitted THEN "MISSING_BOTH"
                          ELSE IF critical THEN "PHASE_CRITICAL"
                          ELSE "STALLED"

C3_Witness ==
    /\ Classified
    /\ \E i \in 1..Len(students) :
          BlockedAndShort(students[i]) /\ students[i].intervention_type = "STALLED"

\* C4: timeline_type is Compressed when weeks_remaining < 3 and ordinal < 3, otherwise
\* Critical when weeks_remaining < 2 and ordinal < 4, otherwise Standard; a record that
\* meets both conditions is Compressed, and week 6 with ordinal 2 gives Compressed.
C4_TimelineType ==
    UnitDerived =>
        \A i \in 1..Len(students) :
            LET s == students[i]
                both == s.weeks_remaining < 2 /\ Ordinal(s) < 3
            IN  /\ s.timeline_type =
                      CASE s.weeks_remaining < 3 /\ Ordinal(s) < 3 -> "Compressed"
                        [] ~(s.weeks_remaining < 3 /\ Ordinal(s) < 3)
                           /\ s.weeks_remaining < 2 /\ Ordinal(s) < 4 -> "Critical"
                        [] OTHER -> "Standard"
                /\ both => s.timeline_type = "Compressed"
                /\ (s.week = 6 /\ Ordinal(s) = 2) => s.timeline_type = "Compressed"

C4_Witness ==
    /\ pc = "u_derived"
    /\ students[1].week = 7
    /\ Ordinal(students[1]) = 2
    /\ students[1].timeline_type = "Compressed"

\* the stepped sum of the phase ordinal: 0->0, 1->1, 2->3, 3->5, 4->6
SteppedSum == [p \in 0..4 |-> CASE p = 0 -> 0 [] p = 1 -> 1 [] p = 2 -> 3
                                [] p = 3 -> 5 [] p = 4 -> 6]

\* C5: after derivation deliverables_expected is the stepped sum of the phase ordinal,
\* so it is in {0,1,3,5,6} and non-decreasing in the ordinal.
C5_DeliverablesExpected ==
    Derived =>
        /\ \A i \in 1..Len(students) :
              /\ students[i].deliverables_expected = SteppedSum[Ordinal(students[i])]
              /\ students[i].deliverables_expected \in {0, 1, 3, 5, 6}
        /\ \A i, j \in 1..Len(students) :
              Ordinal(students[i]) <= Ordinal(students[j]) =>
                  students[i].deliverables_expected <= students[j].deliverables_expected

C5_Witness ==
    /\ pc = "derived"
    /\ \E i, j \in 1..Len(students) :
          /\ Ordinal(students[i]) = 2 /\ students[i].deliverables_expected = 3
          /\ Ordinal(students[j]) = 4 /\ students[j].deliverables_expected = 6

DeliverableFlags ==
    {"why_chosen_complete", "reproduction_complete", "solution_complete",
     "implementation_complete", "testing_complete", "feedback_complete"}

\* C6 as stated: after derivation deliverables_complete lies in [0, deliverables_expected].
C6_Original ==
    Derived =>
        \A i \in 1..Len(students) :
            /\ 0 <= students[i].deliverables_complete
            /\ students[i].deliverables_complete <= students[i].deliverables_expected

\* C6: after derivation deliverables_complete is the count of true deliverable flags and
\* lies in [0, 6]; it is not bounded by deliverables_expected.
C6_CompleteIsFlagCount ==
    Derived =>
        \A i \in 1..Len(students) :
            /\ students[i].deliverables_complete =
                  Cardinality({f \in DeliverableFlags : students[i][f]})
            /\ students[i].deliverables_complete \in 0..6

C6_Witness ==
    /\ pc = "derived"
    /\ \E i \in 1..Len(students) :
          /\ students[i].deliverables_complete = 2
          /\ students[i].deliverables_expected = 1

\* the row has no submission column, or its cell is a text holding neither keyword
NeitherKeyword(row) ==
    \/ COL_SUBMISSION \notin DOMAIN row
    \/ /\ row[COL_SUBMISSION] # NoneVal
       /\ \A k \in 1..Len(row[COL_SUBMISSION]) :
             row[COL_SUBMISSION][k] \notin {"Wednesday", "Sunday"}

\* the row of the worked example: week "Week 1", phase "Phase 1"
ExampleRow(row) ==
    /\ COL_WEEK \in DOMAIN row /\ row[COL_WEEK] = <<"Week", " ", "1">>
    /\ COL_PHASE \in DOMAIN row /\ row[COL_PHASE] = <<"Phase", " ", "1">>

\* C7: a row without the submission column, or whose submission text holds neither
\* "Wednesday" nor "Sunday", gives a record classified AT_RISK / MISSING_BOTH whatever
\* its other cells; with week "Week 1" and phase "Phase 1" the record has week 1,
\* phase "Phase 1: Issue Selection" and deliverables_expected 1.
C7_MissingBoth ==
    Classified =>
        /\ Len(students) = Len(raw_rows)
        /\ \A i \in 1..Len(students) :
              NeitherKeyword(raw_rows[i]) =>
                  /\ students[i].grade_status = AT_RISK
                  /\ students[i].intervention_type = "MISSING_BOTH"
                  /\ ExampleRow(raw_rows[i]) =>
                        /\ students[i].week = 1
                        /\ students[i].current_phase =
                              <<"Phase", " ", "1", ":", " ", "Issue", " ", "Selection">>
                        /\ students[i].deliverables_expected = 1

C7_Witness ==
    /\ pc = "classified"
    /\ \E i \in 1..Len(students) :
          /\ COL_SUBMISSION \notin DOMAIN raw_rows[i]
          /\ ExampleRow(raw_rows[i])
          /\ students[i].intervention_type = "MISSING_BOTH"
    /\ \E i \in 1..Len(students) :
          /\ ExampleRow(raw_rows[i]) = FALSE
          /\ students[i].week = 6
          /\ students[i].intervention_type = "MISSING_BOTH"

\* number of data rows of the input: the non-blank lines after the header line
NumDataRows ==
    IF ~data.decodable THEN 0
    ELSE Cardinality({k \in 2..Len(data.lines) : data.lines[k] # <<>>})

\* C8: an input that parses to zero data rows gives the failure result (no payload, no
\* file name, rows_processed 0, a non-empty message) and no workbook is built.
C8_EmptyInput ==
    (data.decodable /\ NumDataRows = 0) =>
        /\ pc \in {"start", "done"}
        /\ wb = NoWorkbook
        /\ students = <<>>
        /\ pc = "done" =>
              /\ result.success = FALSE
              /\ result.output_data = NoneVal
              /\ result.output_filename = NoneVal
              /\ result.rows_processed = 0
              /\ result.error_message \notin {NoneVal, <<>>}

C8_Witness ==
    /\ pc = "done"
    /\ data.decodable
    /\ Len(data.lines) = 3
    /\ NumDataRows = 0

\* C9 as stated: every input with at least one data row makes process return success
\* with every row mapped, derived and classified, whatever its cells hold or lack.
C9_Original ==
    (pc = "done" /\ data.decodable /\ NumDataRows > 0) =>
        /\ result.success
        /\ result.rows_processed = NumDataRows
        /\ Len(students) = NumDataRows

SuccessForm ==
    /\ result.success
    /\ result.output_data # NoneVal
    /\ result.rows_processed = NumDataRows
    /\ result.error_message = NoneVal

FailureForm ==
    /\ result.success = FALSE
    /\ result.output_data = NoneVal
    /\ result.error_message \notin {NoneVal, <<>>}
    /\ \/ result.error_message = <<"CSV file is empty">>
       \/ Head(result.error_message) = "Processing error: "

\* C10: process is always at a stage whose step is defined until it returns (an exception
\* is the step into the except clause), and what it returns is either the success form (payload,
\* rows_processed = number of data rows, no message) or the failure form (no payload, the
\* message "CSV file is empty" or one starting "Processing error: "), also when the
\* exception comes after rows were mapped or sheets were built; success is returned only
\* with all rows classified and the five sheets built.
C10_NoPartialSuccess ==
    /\ pc # "done" =>
          /\ result = Pending
          /\ pc \in {"start", "parsed", "transformed", "derived", "classified", "workbook",
                     "master", "at_risk", "flagged", "on_track", "summary"}
    /\ pc = "done" =>
          /\ SuccessForm \/ FailureForm
          /\ ~(SuccessForm /\ FailureForm)
          /\ result.success =>
                /\ Len(students) = NumDataRows
                /\ Len(wb.sheets) = 5
                /\ \A i \in 1..Len(students) :
                      i \in {wb.sheets[1].rows[k] : k \in 1..Len(wb.sheets[1].rows)}

C10_Witness ==
    /\ pc = "done"
    /\ FailureForm
    /\ Len(students) = 2
    /\ Len(wb.sheets) = 4
    /\ wb.sheets[4].rows # <<>>

(***************************************************************************)
(* Several calls of process on one TrackerDataProcessor instance           *)
(***************************************************************************)
MaxCalls == 2               \* calls of process made on the instance

RunFamily ==
    [labels |-> <<COL_SUBMISSION, COL_PHASE, COL_BLOCKED, COL_BLOCKER>>,
     cells |-> <<{T_WED, T_LATE}, {T_P1}, {T_YES, T_NO}, {T_X, T_EMPTY}>>]

\* the bytes of one call: undecodable, no line, or the header and at most one data line
RunInputs ==
    {[decodable |-> FALSE, lines |-> <<>>], [decodable |-> TRUE, lines |-> <<>>]}
    \cup {[decodable |-> TRUE, lines |-> <<RunFamily.labels>> \o ls] :
             ls \in SeqsUpTo(DataLines(RunFamily), 1)}

InitRuns ==
    /\ pc = "start"
    /\ data \in RunInputs
    /\ raw_rows = <<>>
    /\ students = <<>>
    /\ wb = NoWorkbook
    /\ result = Pending
    /\ log = <<>>
    /\ storage = NoFiles
    /\ now = 0
    /\ sessions = <<>>
    /\ tasks = <<>>

\* the call has returned and process is called again on the same instance:
\* the locals of the new call are fresh, the instance has no attribute to carry over
NewCall ==
    /\ pc = "done"
    /\ Len(log) + 1 < MaxCalls
    /\ log' = Append(log, [data |-> data, students |-> students, result |-> result])
    /\ data' \in RunInputs
    /\ pc' = "start"
    /\ raw_rows' = <<>>
    /\ students' = <<>>
    /\ wb' = NoWorkbook
    /\ result' = Pending
    /\ UNCHANGED <<storage, now, sessions, tasks>>

NextRuns ==
    \/ Next
    \/ NewCall

SpecRuns == InitRuns /\ [][NextRuns]_vars

\* the calls made so far that have returned
ReturnedCalls ==
    {log[i] : i \in 1..Len(log)}
    \cup (IF pc = "done"
          THEN {[data |-> data, students |-> students, result |-> result]}
          ELSE {})

\* status, reason and derived fields of every record of a call
Outcome(call) ==
    [i \in 1..Len(call.students) |->
        LET s == call.students[i]
        IN  <<s.grade_status, s.intervention_type, s.weeks_remaining, s.timeline_type,
              s.deliverables_expected, s.deliverables_complete, s.days_since_commit>>]

MaxLen == 3                 \* lexemes of the cell

DecodedColumns == {COL_WEEK, COL_CONTRIB, COL_SUBMISSION, COL_PHASE}

\* the lexemes the cells of a decoded column are made of
CellAtoms(c) ==
    CASE c = COL_WEEK -> {"Week", " ", "1", "2", "-", "x"}
      [] c = COL_CONTRIB -> {"No", " ", "Contribution", "2", "x"}
      [] c = COL_SUBMISSION -> {"Wednesday", "Sunday", " ", "x"}
      [] c = COL_PHASE -> {"1", "2", "3", "4", "Selection", "reproduction",
                           "implementation", "submission", "x"}

Texts(c) == UNION {[1..n -> CellAtoms(c)] : n \in 0..MaxLen}

\* one data line under the header <<"Email", c>>: the cell of c holds a text, or the
\* line ends before it (csv.DictReader then gives the cell None)
CellInputsOf(c) ==
    {[decodable |-> TRUE, lines |-> << <<"Email", c>>, <<T_X>> \o cell >>] :
        cell \in {<<>>} \cup {<<t>> : t \in Texts(c)}}

CellInputs == UNION {CellInputsOf(c) : c \in DecodedColumns}

InitCells ==
    /\ pc = "start"
    /\ data \in CellInputs
    /\ raw_rows = <<>>
    /\ students = <<>>
    /\ wb = NoWorkbook
    /\ result = Pending
    /\ log = <<>>
    /\ storage = NoFiles
    /\ now = 0
    /\ sessions = <<>>
    /\ tasks = <<>>

NextCells ==
    \/ Parse
    \/ TransformRecords

SpecCells == InitCells /\ [][NextCells]_vars

\* the mapper has returned the record of the row whose column c was decoded
Mapped(c) == pc = "transformed" /\ c \in DOMAIN raw_rows[1]

\* C12: the phase is the label of the first test, in the order 1 / selection,
\* 2 / reproduction, 3 / implementation, 4 / submission, that the lowercased cell
\* passes, and the lowercased cell itself when it passes none; a cell passing
\* several tests gets the earliest label.
C12_FirstPhaseTest ==
    Mapped(COL_PHASE) =>
        LET t == Lower(Str(raw_rows[1][COL_PHASE]))
            has(digit, word) == \E i \in 1..Len(t) : t[i] \in {digit, word}
            tests == <<has("1", "selection"), has("2", "reproduction"),
                       has("3", "implementation"), has("4", "submission")>>
            labels == <<PHASE_1, PHASE_2, PHASE_3, PHASE_4>>
            passed == {k \in 1..4 : tests[k]}
        IN  students[1].current_phase =
                IF passed = {} THEN t
                ELSE labels[CHOOSE k \in passed : \A j \in passed : k <= j]

\* a cell holding "2" before "1" was normalised to the first phase
C12_Witness ==
    /\ Mapped(COL_PHASE)
    /\ raw_rows[1][COL_PHASE] = <<"2", "submission", "1">>
    /\ students[1].current_phase = PHASE_1

\* C13 (as claimed): a contribution cell containing "No Contribution" gives
\* contribution number 0; another cell containing "Contribution" gives the integer
\* of its last token, or 1 when that is no integer; any other cell gives 1.
C13_Original ==
    (Mapped(COL_CONTRIB) /\ raw_rows[1][COL_CONTRIB] # NoneVal) =>
        LET v == raw_rows[1][COL_CONTRIB]
            n == ParseInt(SplitLast(v).tok)
        IN  students[1].contribution_num =
                IF Contains(v, <<"No", " ", "Contribution">>) THEN 0
                ELSE IF Contains(v, <<"Contribution">>) /\ n.ok THEN n.val
                ELSE 1

\* the text before a leading "Week " is dropped, nothing else
WithoutLeadingWeek(text) ==
    IF Len(text) >= 2 /\ SubSeq(text, 1, 2) = <<"Week", " ">>
    THEN SubSeq(text, 3, Len(text))
    ELSE text

\* the lexemes of text that belong to no occurrence of "Week "
WithoutEveryWeek(text) ==
    LET starts == {i \in 1..(Len(text) - 1) : text[i] = "Week" /\ text[i + 1] = " "}
        kept(i) == i \notin starts /\ (i - 1) \notin starts
        RECURSIVE Keep(_)
        Keep(i) == IF i > Len(text) THEN <<>>
                   ELSE (IF kept(i) THEN <<text[i]>> ELSE <<>>) \o Keep(i + 1)
    IN  Keep(1)

\* the integer a text denotes, 0 when it denotes none
IntOrZero(text) == IF ParseInt(text).ok THEN ParseInt(text).val ELSE 0

\* C14 (as claimed): week is the integer left after a leading "Week " prefix is
\* stripped from the cell, and 0 for a cell that does not parse this way.
C14_Original ==
    Mapped(COL_WEEK) =>
        students[1].week =
            IF raw_rows[1][COL_WEEK] = NoneVal THEN 0
            ELSE IntOrZero(WithoutLeadingWeek(raw_rows[1][COL_WEEK]))

\* C14: week is the integer left after every occurrence of "Week " is deleted from
\* the cell and the blanks around the rest are trimmed; for a cell that does not
\* parse this way (empty, non-numeric, missing) week is 0, and the mapper returns
\* the record instead of raising.
C14_WeekDecoder ==
    (pc \in {"transformed", "done"} /\ raw_rows # <<>> /\ COL_WEEK \in DOMAIN raw_rows[1]) =>
        /\ pc = "transformed"
        /\ students[1].week =
              IF raw_rows[1][COL_WEEK] = NoneVal THEN 0
              ELSE IntOrZero(WithoutEveryWeek(raw_rows[1][COL_WEEK]))

\* the week of a cell with "Week " after the number was decoded
C14_Witness ==
    /\ Mapped(COL_WEEK)
    /\ raw_rows[1][COL_WEEK] = <<"1", "Week", " ">>
    /\ students[1].week = 1

\* C15: a submission cell containing "Wednesday" sets the midweek flag only, also
\* when it contains "Sunday"; a cell with "Sunday" and no "Wednesday" sets the
\* end-of-week flag only; any other text sets neither.
C15_SubmissionFlags ==
    (Mapped(COL_SUBMISSION)) =>
        LET v == raw_rows[1][COL_SUBMISSION]
            wed == \E i \in 1..Len(v) : v[i] = "Wednesday"
            sun == \E i \in 1..Len(v) : v[i] = "Sunday"
        IN  /\ wed => students[1].wed_submitted /\ ~students[1].sun_submitted
            /\ (sun /\ ~wed) => students[1].sun_submitted /\ ~students[1].wed_submitted
            /\ (~sun /\ ~wed) => ~students[1].sun_submitted /\ ~students[1].wed_submitted

\* a cell naming both days was decoded
C15_Witness ==
    /\ Mapped(COL_SUBMISSION)
    /\ raw_rows[1][COL_SUBMISSION] = <<"Sunday", " ", "Wednesday">>
    /\ students[1].wed_submitted
    /\ ~students[1].sun_submitted

TextFields ==
    {"student_id", "name", "member_id", "readme_link", "current_phase", "issue_url",
     "fork_url", "mr_url", "progress_summary", "next_week_plan", "blocker_desc",
     "submission_date"}

BoolFields == DeliverableFlags \cup {"blocked"}

\* the cells of a row under the labels of the table
MappedPart(row) == [c \in (DOMAIN row) \cap (DOMAIN CSV_COLUMN_MAP) |-> row[c]]

\* what C16 says of one row and its record, the contribution number of a row
\* without that label being absent_contribution
FrameOfRow(row, s, absent_contribution) ==
    /\ s = [transform_row(MappedPart(row)) EXCEPT !.raw_data = row]
    /\ \A f \in TextFields : ColumnOf(f) \notin DOMAIN row => s[f] = <<>>
    /\ \A f \in BoolFields : ColumnOf(f) \notin DOMAIN row => s[f] = FALSE
    /\ COL_WEEK \notin DOMAIN row => s.week = 0
    /\ COL_CONTRIB \notin DOMAIN row => s.contribution_num = absent_contribution
    /\ COL_SUBMISSION \notin DOMAIN row => ~s.wed_submitted /\ ~s.sun_submitted
    /\ COL_TAGS \notin DOMAIN row => s.cam_notes = <<>>

SheetTitles ==
    <<"Master Tracker", "P1 - At Risk", "P2 - Flagged", "P3 - On Track", "Weekly Summary">>

TitlesOf(book) == [k \in 1..Len(book.sheets) |-> book.sheets[k].title]

\* C17: the sheets are created in the fixed order, the default sheet never among
\* them and none twice; when process returns success the workbook and the bytes
\* returned hold exactly the five sheets "Master Tracker", "P1 - At Risk",
\* "P2 - Flagged", "P3 - On Track", "Weekly Summary" in this order, and
\* rows_processed is the number of data rows of the input.
C17_FiveSheets ==
    /\ wb.created =>
          /\ Len(wb.sheets) <= Len(SheetTitles)
          /\ TitlesOf(wb) = SubSeq(SheetTitles, 1, Len(wb.sheets))
    /\ (pc = "done" /\ result.success) =>
          /\ TitlesOf(wb) = SheetTitles
          /\ result.output_data = SheetTitles
          /\ result.rows_processed = NumDataRows
          /\ result.rows_processed = Len(students)

\* a report on two data rows was returned
C17_Witness ==
    /\ pc = "done"
    /\ result.success
    /\ Len(wb.sheets) = 5
    /\ result.rows_processed = 2

\* the positions of students that a sheet lists, with repetitions counted
RowCount(sheet, i) == Cardinality({k \in 1..Len(sheet.rows) : sheet.rows[k] = i})

StatusOfSheet == <<"", AT_RISK, FLAGGED, ON_TRACK>>

\* C18: once the three tier views are written, every record has exactly one row in
\* the full table and exactly one row in exactly one tier view, the view of its
\* status, and the sizes of the three views add up to the number of records.
C18_TierPartition ==
    (pc \in {"on_track", "summary"} \/ (pc = "done" /\ result.success)) =>
        /\ \A i \in 1..Len(students) :
              /\ RowCount(wb.sheets[1], i) = 1
              /\ \A v \in 2..4 :
                    RowCount(wb.sheets[v], i) =
                        IF students[i].grade_status = StatusOfSheet[v] THEN 1 ELSE 0
        /\ \A v \in 1..4 : \A k \in 1..Len(wb.sheets[v].rows) :
              wb.sheets[v].rows[k] \in 1..Len(students)
        /\ Len(wb.sheets[2].rows) + Len(wb.sheets[3].rows) + Len(wb.sheets[4].rows)
               = Len(students)

\* the views of a report with an at-risk and an on-track record
C18_Witness ==
    /\ pc = "summary"
    /\ Len(students) = 2
    /\ Len(wb.sheets[2].rows) = 1
    /\ Len(wb.sheets[4].rows) = 1

(***************************************************************************)
(* The report renderer called on a classified record list                  *)
(***************************************************************************)
MaxStudents == 3            \* records handed to the sheet builders

\* status and reason pairs of the records: the three at-risk reasons of the priority
\* table, an at-risk record with a reason outside it, a flagged and an on-track record
RenderKinds ==
    {<<AT_RISK, "MISSING_BOTH">>, <<AT_RISK, "PHASE_CRITICAL">>, <<AT_RISK, "STALLED">>,
     <<AT_RISK, "NO_ACTIVITY">>, <<FLAGGED, "MISSING_DELIVERABLES">>, <<ON_TRACK, "">>}

RenderRecords ==
    {[StudentRecord EXCEPT !.grade_status = k[1], !.intervention_type = k[2], !.week = w] :
        k \in RenderKinds, w \in {1, 2}}

InitRender ==
    /\ pc = "classified"
    /\ data = [decodable |-> TRUE, lines |-> <<>>]
    /\ raw_rows = <<>>
    /\ students \in SeqsUpTo(RenderRecords, MaxStudents)
    /\ wb = NoWorkbook
    /\ result = Pending
    /\ log = <<>>
    /\ storage = NoFiles
    /\ now = 0
    /\ sessions = <<>>
    /\ tasks = <<>>

NextRender ==
    \/ CreateWorkbook
    \/ CreateMasterTab
    \/ CreateAtRiskTab
    \/ CreateFlaggedTab
    \/ CreateOnTrackTab
    \/ CreateSummaryTab
    \/ SaveWorkbook

SpecRender == InitRender /\ [][NextRender]_vars

\* the place of a reason in the order of C19
ReasonRank(reason) ==
    CASE reason = "MISSING_BOTH" -> 1
      [] reason = "PHASE_CRITICAL" -> 2
      [] reason = "STALLED" -> 3
      [] OTHER -> 4

AtRiskSheetWritten == wb.created /\ Len(wb.sheets) >= 2

\* C19: the at-risk view lists the at-risk records by reason, MISSING_BOTH first,
\* then PHASE_CRITICAL, then STALLED, then every other reason; records with the
\* same reason (or with two other reasons) keep the order of the input.
C19_AtRiskOrder ==
    AtRiskSheetWritten =>
        LET rows == wb.sheets[2].rows
            rank(k) == ReasonRank(students[rows[k]].intervention_type)
        IN  /\ {rows[k] : k \in 1..Len(rows)} =
                  {i \in 1..Len(students) : students[i].grade_status = AT_RISK}
            /\ \A k \in 1..Len(rows) : \A l \in (k + 1)..Len(rows) :
                  /\ rank(k) <= rank(l)
                  /\ rank(k) = rank(l) => rows[k] < rows[l]

\* a view where the sort moved a record forward and kept two equal reasons in order
C19_Witness ==
    /\ AtRiskSheetWritten
    /\ Len(students) = 3
    /\ students[1].intervention_type = "NO_ACTIVITY"
    /\ students[2].intervention_type = "STALLED"
    /\ students[3].intervention_type = "STALLED"
    /\ wb.sheets[2].rows = <<2, 3, 1>>

SummarySheetWritten == wb.created /\ Len(wb.sheets) = 5

PercentCells ==
    {"on_track", "flagged", "at_risk", "sun_submitted", "wed_submitted",
     "mr_submitted", "mr_merged"}

\* C20: the dashboard is built for every record list, the empty one included (no
\* step of the builder fails); for the empty list every percentage cell is the
\* literal "0", the total is 0 and the week of the title is 0; for a non-empty list
\* the week of the title is the largest week of the records.
C20_Dashboard ==
    /\ pc = "done" => result.success
    /\ SummarySheetWritten =>
          LET stats == wb.sheets[5].rows[1]
          IN  /\ stats.total = Len(students)
              /\ students = <<>> =>
                    /\ \A c \in PercentCells : stats[c].literal = "0"
                    /\ stats.current_week = 0
              /\ students # <<>> =>
                    /\ \A c \in PercentCells : stats[c].literal # "0"
                    /\ \A i \in 1..Len(students) : students[i].week <= stats.current_week
                    /\ \E i \in 1..Len(students) : students[i].week = stats.current_week

\* the dashboard of no record at all
C20_Witness ==
    /\ SummarySheetWritten
    /\ students = <<>>
    /\ wb.sheets[5].rows[1].at_risk.literal = "0"
    /\ wb.sheets[5].rows[1].current_week = 0

DerivedFields ==
    {"deliverables_expected", "deliverables_complete", "weeks_remaining", "timeline_type"}

ClassifiedFields == {"grade_status", "intervention_type"}

\* the record lists before and after differ at most in the fields of owned
SameExcept(before, after, owned) ==
    /\ Len(after) = Len(before)
    /\ \A i \in 1..Len(before) :
          \A f \in (DOMAIN StudentRecord) \ owned : after[i][f] = before[i][f]

RenderStages == {"classified", "workbook", "master", "at_risk", "flagged", "on_track", "summary"}

\* what C21 says of one step of process
StageFrame ==
    /\ pc = "transformed" => SameExcept(students, students', DerivedFields)
    /\ pc = "derived" => SameExcept(students, students', ClassifiedFields)
    /\ pc \in RenderStages => students' = students

\* C21: the derivation step changes only deliverables_expected, deliverables_complete,
\* weeks_remaining and timeline_type of the records, the classification step only
\* grade_status and intervention_type, and the five rendering steps (and the save)
\* change no field of any record and keep the record list in input order.
C21_StageFrames == [][StageFrame]_vars

\* rendering has ended on a list whose at-risk view is in another order than the
\* input, with derived and classified fields that differ from the mapper's defaults
C21_Witness ==
    /\ pc = "summary"
    /\ Len(students) = 2
    /\ students[1].intervention_type = "STALLED"
    /\ students[2].intervention_type = "MISSING_BOTH"
    /\ wb.sheets[2].rows = <<2, 1>>
    /\ students[1].deliverables_expected = 1

\* C26: after _calculate_derived_fields and _calculate_grade_status no record has the
\* reason TIMELINE_COMPRESSED: a record whose derived timeline_type is Compressed has
\* week >= 6 and phase ordinal <= 2, so it is AT_RISK with the reason MISSING_BOTH
\* or PHASE_CRITICAL.
C26_NoTimelineCompressed ==
    pc = "u_derived_classified" =>
        \A i \in 1..Len(students) :
            /\ students[i].intervention_type # "TIMELINE_COMPRESSED"
            /\ students[i].timeline_type = "Compressed" =>
                  /\ students[i].week >= PhaseCriticalWeek
                  /\ Ordinal(students[i]) <= PhaseCriticalPhase
                  /\ students[i].grade_status = AT_RISK
                  /\ students[i].intervention_type \in {"MISSING_BOTH", "PHASE_CRITICAL"}

\* a Compressed record that submitted, is not blocked and misses no deliverable
C26_Witness ==
    /\ pc = "u_derived_classified"
    /\ students[1].timeline_type = "Compressed"
    /\ students[1].wed_submitted
    /\ ~students[1].blocked
    /\ students[1].deliverables_complete >= students[1].deliverables_expected
    /\ students[1].intervention_type = "PHASE_CRITICAL"

\* C27: every record process makes has days_since_commit = 0 at every stage, so once
\* classified none has the reason NO_ACTIVITY and every FLAGGED record has the
\* reason MISSING_DELIVERABLES.
C27_NoActivityNeverFires ==
    /\ \A i \in 1..Len(students) : students[i].days_since_commit = 0
    /\ Classified =>
          \A i \in 1..Len(students) :
              /\ students[i].intervention_type # "NO_ACTIVITY"
              /\ students[i].grade_status = FLAGGED =>
                    students[i].intervention_type = "MISSING_DELIVERABLES"

\* process classified a record as FLAGGED
C27_Witness ==
    /\ Classified
    /\ \E i \in 1..Len(students) :
          /\ students[i].grade_status = FLAGGED
          /\ students[i].days_since_commit = 0

PhaseLabels == <<PHASE_1, PHASE_2, PHASE_3, PHASE_4>>

\* C28: the ordinal of the normalised phase is k exactly when the normaliser chose
\* the Phase k label, and 0 exactly when the cell passed through as its lowercased
\* text; and normalising the normalised phase again returns it unchanged.
C28_OrdinalAgrees ==
    Mapped(COL_PHASE) =>
        LET phase == students[1].current_phase
            n == get_phase_number(phase)
        IN  /\ \A k \in 1..4 : n = k <=> phase = PhaseLabels[k]
            /\ n = 0 <=> (phase = Lower(Str(raw_rows[1][COL_PHASE]))
                           /\ \A k \in 1..4 : phase # PhaseLabels[k])
            /\ n \in 0..4
            /\ normalize_phase(phase) = phase

\* a cell passing only the tests of phase 4 got the label and the ordinal of phase 4
C28_Witness ==
    /\ Mapped(COL_PHASE)
    /\ raw_rows[1][COL_PHASE] = <<"4", "submission">>
    /\ students[1].current_phase = PHASE_4
    /\ get_phase_number(students[1].current_phase) = 4

\* the mapper has produced the records (and process did not fail in it)
Transformed == pc = "transformed" \/ Derived

\* C29: no record the mapper produces has both submission flags set, at any later
\* stage either; on the dashboard the midweek count plus the end-of-week count is
\* at most the number of records.
C29_FlagsExclusive ==
    /\ Transformed =>
          \A i \in 1..Len(students) :
              ~(students[i].wed_submitted /\ students[i].sun_submitted)
    /\ (SummarySheetWritten /\ students # <<>>) =>
          LET stats == wb.sheets[5].rows[1]
          IN  stats.wed_submitted.count + stats.sun_submitted.count <= stats.total

\* the dashboard of a single row whose cell names both days
C29_Witness ==
    /\ SummarySheetWritten
    /\ Len(students) = 1
    /\ COL_SUBMISSION \in DOMAIN raw_rows[1]
    /\ raw_rows[1][COL_SUBMISSION] = T_BOTH
    /\ wb.sheets[5].rows[1].wed_submitted.count = 1
    /\ wb.sheets[5].rows[1].sun_submitted.count = 0

\* C30: on the dashboard of a classified record list the on-track, flagged and
\* at-risk counts add up to the total, the count of records with a reason is the
\* flagged count plus the at-risk count, and the four phase buckets add up to the
\* total minus the number of records of phase ordinal 0.
C30_AggregatesConsistent ==
    (SummarySheetWritten /\ students # <<>>) =>
        LET stats == wb.sheets[5].rows[1]
            unknown == {i \in 1..Len(students) : Ordinal(students[i]) = 0}
        IN  /\ stats.total = Len(students)
            /\ stats.on_track.count + stats.flagged.count + stats.at_risk.count = stats.total
            /\ stats.interventions_sent = stats.flagged.count + stats.at_risk.count
            /\ stats.phase_dist[1] + stats.phase_dist[2] + stats.phase_dist[3]
                  + stats.phase_dist[4] = stats.total - Cardinality(unknown)

\* a dashboard with a flagged record and a record of unknown phase
C30_Witness ==
    /\ SummarySheetWritten
    /\ Len(students) = 2
    /\ wb.sheets[5].rows[1].flagged.count = 1
    /\ \E i \in 1..2 : Ordinal(students[i]) = 0

(***************************************************************************)
(* Calls on one FileStorageService                                         *)
(***************************************************************************)
MaxTime == 1                \* last reading of the clock
MaxFiles == 2               \* data files the upload directory holds at once

OtherCategory == "other"    \* a category outside VALID_FILE_CATEGORIES

\* the category argument of the calls: a valid one, none, or an invalid one
CategoryArgs == VALID_FILE_CATEGORIES \cup {NoCategory, OtherCategory}

Filenames == {"ab.csv", "a b.csv"}

CleanupAges == {0, 1}

\* what the pipeline variables hold while the storage service or the cog is driven
ProcessIdle ==
    /\ pc = "idle"
    /\ data = [decodable |-> TRUE, lines |-> <<>>]
    /\ raw_rows = <<>>
    /\ students = <<>>
    /\ wb = NoWorkbook

\* log is the file last stored under each category and not deleted since
InitStorage ==
    /\ ProcessIdle
    /\ result = [op |-> "init", category |-> NoCategory, ret |-> NoFile]
    /\ log = [c \in VALID_FILE_CATEGORIES |-> NoFile]
    /\ storage = NoFiles
    /\ now = 0
    /\ sessions = <<>>
    /\ tasks = <<>>

Returned(op, category, ret) == result' = [op |-> op, category |-> category, ret |-> ret]

StoreFile ==
    \E filename \in Filenames, category \in CategoryArgs :
        LET r == store_file(storage, filename, 1, category, now)
        IN  /\ Cardinality(DOMAIN r.st.disk) <= MaxFiles
            /\ storage' = r.st
            /\ Returned("store_file", category, r.ret)
            /\ log' = IF category \in VALID_FILE_CATEGORIES
                      THEN [log EXCEPT ![category] = r.ret] ELSE log
            /\ UNCHANGED <<pc, data, raw_rows, students, wb, now, sessions, tasks>>

GetFile ==
    \E category \in CategoryArgs :
        LET r == get_file(storage, category)
        IN  /\ storage' = r.st
            /\ Returned("get_file", category, r.ret)
            /\ UNCHANGED <<pc, data, raw_rows, students, wb, log, now, sessions, tasks>>

DeleteFile ==
    \E category \in CategoryArgs :
        LET r == delete_file(storage, category)
        IN  /\ storage' = r.st
            /\ Returned("delete_file", category, r.ret)
            /\ log' = IF category \in VALID_FILE_CATEGORIES
                      THEN [log EXCEPT ![category] = NoFile] ELSE log
            /\ UNCHANGED <<pc, data, raw_rows, students, wb, now, sessions, tasks>>

DeleteAllFiles ==
    LET r == delete_all_files(storage)
    IN  /\ storage' = r.st
        /\ Returned("delete_all_files", NoCategory, r.ret)
        /\ log' = [c \in VALID_FILE_CATEGORIES |-> NoFile]
        /\ UNCHANGED <<pc, data, raw_rows, students, wb, now, sessions, tasks>>

CleanupOldFiles ==
    \E max_age \in CleanupAges :
        LET r == cleanup_old_files(storage, max_age, now)
        IN  /\ storage' = r.st
            /\ Returned("cleanup_old_files", NoCategory, r.ret)
            /\ UNCHANGED <<pc, data, raw_rows, students, wb, log, now, sessions, tasks>>

\* time passes between two calls
Tick ==
    /\ now < MaxTime
    /\ now' = now + 1
    /\ UNCHANGED <<pc, data, raw_rows, students, wb, result, log, storage, sessions, tasks>>

NextStorage ==
    \/ StoreFile
    \/ GetFile
    \/ DeleteFile
    \/ DeleteAllFiles
    \/ CleanupOldFiles
    \/ Tick

SpecStorage == InitStorage /\ [][NextStorage]_vars

\* the step is the call delete_file(category)
DeleteFileStep(category) ==
    /\ result'.op = "delete_file"
    /\ result'.category = category
    /\ storage' = delete_file(storage, category).st
    /\ now' = now
    /\ \/ result.op # "delete_file"
       \/ result.category # category
       \/ result.ret # result'.ret

\* the step is the call delete_all_files()
DeleteAllFilesStep ==
    /\ result'.op = "delete_all_files"
    /\ storage' = delete_all_files(storage).st
    /\ now' = now
    /\ result.op # "delete_all_files" \/ result.ret # result'.ret

\* C22 (as claimed): delete_file(category) returns True exactly when
\* has_file(category) was true before the call, and False when it was not or the
\* category is invalid; afterwards has_file(category) is false and the other
\* categories are as before; delete_all_files returns the number of categories for
\* which has_file was true.
C22_Original ==
    [][ /\ \A category \in CategoryArgs :
             DeleteFileStep(category) =>
                 /\ result'.ret = has_file(storage, category)
                 /\ ~has_file(storage', category)
                 /\ \A other \in VALID_FILE_CATEGORIES \ {category} :
                       storage'.files[other] = storage.files[other]
        /\ DeleteAllFilesStep =>
              result'.ret = Cardinality({c \in VALID_FILE_CATEGORIES : has_file(storage, c)})
      ]_vars

\* what get_file(category) is to return: the file last stored under the category
\* and not deleted since, while its data file exists
ExpectedFile(category) ==
    IF category \in VALID_FILE_CATEGORIES /\ log[category] # NoFile
       /\ log[category].filepath \in DOMAIN storage.disk
    THEN log[category]
    ELSE NoFile

\* the step is a call of store_file without a valid category
StoreUncategorisedStep ==
    /\ result'.op = "store_file"
    /\ result'.category \notin VALID_FILE_CATEGORIES
    /\ \E filename \in Filenames :
          storage' = store_file(storage, filename, 1, result'.category, now).st

MaxTasks == 2

\* messages with a CSV attachment the users send
MaxMessages == 1

Users == {1, 2}

Channels == {1, 2}

\* for category in ["master", "typeform", "zoom"]
WizardCategories == <<"master", "typeform", "zoom">>

\* a CSV attachment, the word skip, the word cancel
MessageKinds == {"csv", "skip", "cancel"}

NoMessage == [id |-> 0, author |-> 0, channel |-> 0, kind |-> "none"]

\* attachment.filename of an uploaded CSV
AttachmentName == "ab.csv"

\* one invocation: cmd is "wizard" or the category of a single-category command,
\* at is the await it is suspended at, category the one it asks for
Task(cmd, user, channel, at, category) ==
    [cmd |-> cmd, user |-> user, channel |-> channel, at |-> at,
     category |-> category, message |-> NoMessage]

\* the check closures handed to bot.wait_for: same author and channel, and a
\* cancel word or a .csv attachment; the wizard's check also takes skip
check(task, message) ==
    /\ message.author = task.user
    /\ message.channel = task.channel
    /\ \/ message.kind = "cancel"
       \/ message.kind = "skip" /\ task.cmd = "wizard"
       \/ message.kind = "csv"

\* self._upload_sessions.pop(user, None)
pop(table, user) == [u \in DOMAIN table \ {user} |-> table[u]]

RemoveTask(k) == SubSeq(tasks, 1, k - 1) \o SubSeq(tasks, k + 1, Len(tasks))

\* the category after the given one in the wizard's loop, NoCategory after the last
NextCategory(category) ==
    IF category = NoCategory THEN WizardCategories[1]
    ELSE LET i == CHOOSE j \in DOMAIN WizardCategories : WizardCategories[j] = category
         IN  IF i < Len(WizardCategories) THEN WizardCategories[i + 1] ELSE NoCategory

\* log counts the CSV messages sent and records (message id, category) of every store
InitCog ==
    /\ ProcessIdle
    /\ result = [op |-> "init", user |-> 0, category |-> NoCategory]
    /\ log = [sent |-> 0, stores |-> {}]
    /\ storage = NoFiles
    /\ now = 0
    /\ sessions = <<>>
    /\ tasks = <<>>

\* result is how the last command invocation was taken
Invoked(op, user, category) == result' = [op |-> op, user |-> user, category |-> category]

CogFrame == UNCHANGED <<pc, data, raw_rows, students, wb, now>>

\* a coroutine moves on from an await
StepFrame == UNCHANGED <<pc, data, raw_rows, students, wb, now, result>>

\* upload, no session of the user: the entry is made and the intro is being sent
Upload(user, channel) ==
    /\ user \notin DOMAIN sessions
    /\ Len(tasks) < MaxTasks
    /\ sessions' = (user :> "wizard") @@ sessions
    /\ tasks' = Append(tasks, Task("wizard", user, channel, "intro", NoCategory))
    /\ Invoked("upload", user, NoCategory)
    /\ CogFrame
    /\ UNCHANGED <<storage, log>>

\* the warning sent from inside the try block, whose finally clause pops the entry
UploadWarn_in_try(user, channel) ==
    /\ user \in DOMAIN sessions
    /\ sessions' = pop(sessions, user)
    /\ Invoked("warn", user, NoCategory)
    /\ CogFrame
    /\ UNCHANGED <<tasks, storage, log>>

\* upload while the user has a session: a warning is sent and the command returns
UploadWarn(user, channel) ==
    /\ user \in DOMAIN sessions
    /\ Invoked("warn", user, NoCategory)
    /\ CogFrame
    /\ UNCHANGED <<sessions, tasks, storage, log>>

\* upload master / typeform / zoom: get_file for the prompt, the prompt is being sent
UploadCategory(user, channel, category) ==
    /\ Len(tasks) < MaxTasks
    /\ storage' = get_file(storage, category).st
    /\ tasks' = Append(tasks, Task(category, user, channel, "prompt", category))
    /\ Invoked("upload_category", user, category)
    /\ CogFrame
    /\ UNCHANGED <<sessions, log>>

\* the wizard after the intro or after a category was skipped or stored: the next
\* category's get_file and prompt, or the completion message after the last one
WizardNext(k) ==
    /\ tasks[k].cmd = "wizard"
    /\ tasks[k].at \in {"intro", "sent"}
    /\ LET next == NextCategory(tasks[k].category)
       IN  IF next = NoCategory
           THEN /\ tasks' = [tasks EXCEPT ![k].at = "ending"]
                /\ UNCHANGED storage
           ELSE /\ tasks' = [tasks EXCEPT ![k].at = "prompt", ![k].category = next]
                /\ storage' = get_file(storage, next).st
    /\ StepFrame
    /\ UNCHANGED <<sessions, log>>

\* the prompt is sent: bot.wait_for registers the check as a listener
WaitFor(k) ==
    /\ tasks[k].at = "prompt"
    /\ tasks' = [tasks EXCEPT ![k].at = "waiting"]
    /\ StepFrame
    /\ UNCHANGED <<sessions, storage, log>>

\* a user sends a message: the dispatch hands it to every listener whose check
\* passes. Messages with a CSV attachment are numbered, to tell them apart.
Dispatch(author, channel, kind) ==
    /\ kind = "csv" => log.sent < MaxMessages
    /\ LET message == [id |-> IF kind = "csv" THEN log.sent + 1 ELSE 0,
                       author |-> author, channel |-> channel, kind |-> kind]
       IN  /\ tasks' = [k \in DOMAIN tasks |->
                          IF tasks[k].at = "waiting" /\ check(tasks[k], message)
                          THEN [tasks[k] EXCEPT !.at = "received", !.message = message]
                          ELSE tasks[k]]
           /\ log' = [log EXCEPT !.sent = IF kind = "csv" THEN @ + 1 ELSE @]
    /\ StepFrame
    /\ UNCHANGED <<sessions, storage>>

\* a coroutine resumes with the message it waited for
Resume(k) ==
    /\ tasks[k].at = "received"
    /\ LET task == tasks[k]
       IN  CASE task.message.kind = "cancel" /\ task.cmd = "wizard" ->
                  /\ tasks' = [tasks EXCEPT ![k].at = "ending", ![k].message = NoMessage]
             [] task.message.kind = "cancel" /\ task.cmd # "wizard" ->
                  /\ tasks' = RemoveTask(k)
             [] task.message.kind = "skip" ->
                  /\ tasks' = [tasks EXCEPT ![k].at = "sent", ![k].message = NoMessage]
             [] OTHER ->
                  /\ tasks' = [tasks EXCEPT ![k].at = "reading"]
    /\ StepFrame
    /\ UNCHANGED <<sessions, storage, log>>

\* attachment.read() is done: the file is stored under the category asked for
Store(k) ==
    /\ tasks[k].at = "reading"
    /\ LET task == tasks[k]
       IN  /\ storage' = store_file(storage, AttachmentName, task.user, task.category, now).st
           /\ log' = [log EXCEPT !.stores = @ \cup {<<task.message.id, task.category>>}]
           /\ tasks' = [tasks EXCEPT ![k].at = IF task.cmd = "wizard" THEN "sent" ELSE "ending",
                                     ![k].message = NoMessage]
    /\ StepFrame
    /\ UNCHANGED sessions

\* asyncio.TimeoutError out of wait_for: the time-out message is being sent
Timeout(k) ==
    /\ tasks[k].at = "waiting"
    /\ tasks' = [tasks EXCEPT ![k].at = "ending"]
    /\ StepFrame
    /\ UNCHANGED <<sessions, storage, log>>

\* the last message is sent and the command returns; the wizard's finally clause
\* pops the session entry
CommandReturn(k) ==
    /\ tasks[k].at = "ending"
    /\ tasks' = RemoveTask(k)
    /\ sessions' = IF tasks[k].cmd = "wizard" THEN pop(sessions, tasks[k].user) ELSE sessions
    /\ StepFrame
    /\ UNCHANGED <<storage, log>>

\* the await a coroutine is suspended at raises: the command ends, the wizard
\* through its finally clause
Raise(k) ==
    /\ tasks' = RemoveTask(k)
    /\ sessions' = IF tasks[k].cmd = "wizard" THEN pop(sessions, tasks[k].user) ELSE sessions
    /\ StepFrame
    /\ UNCHANGED <<storage, log>>

NextCog ==
    \/ \E user \in Users, channel \in Channels : Upload(user, channel)
    \/ \E user \in Users, channel \in Channels : UploadWarn(user, channel)
    \/ \E user \in Users, channel \in Channels, category \in VALID_FILE_CATEGORIES :
          UploadCategory(user, channel, category)
    \/ \E user \in Users, channel \in Channels, kind \in MessageKinds :
          Dispatch(user, channel, kind)
    \/ \E k \in DOMAIN tasks : WizardNext(k)
    \/ \E k \in DOMAIN tasks : WaitFor(k)
    \/ \E k \in DOMAIN tasks : Resume(k)
    \/ \E k \in DOMAIN tasks : Store(k)
    \/ \E k \in DOMAIN tasks : Timeout(k)
    \/ \E k \in DOMAIN tasks : CommandReturn(k)
    \/ \E k \in DOMAIN tasks : Raise(k)

SpecCog == InitCog /\ [][NextCog]_vars

\* the running wizards of a user
WizardsOf(user) == {k \in DOMAIN tasks : tasks[k].cmd = "wizard" /\ tasks[k].user = user}

\* C24: a user has an entry in the upload-session table exactly while a wizard of
\* that user is running, so at most one wizard runs per user and the entry is gone
\* however the wizard ended; an upload invocation made while the entry exists sends
\* the warning and changes neither the table, nor any running command, nor the
\* stored files.
C24_SessionTable ==
    /\ [](\A user \in Users :
             /\ Cardinality(WizardsOf(user)) <= 1
             /\ user \in DOMAIN sessions <=> WizardsOf(user) # {}
             /\ user \in DOMAIN sessions => sessions[user] = "wizard")
    /\ [][(result'.op = "warn" /\ result' # result) =>
             /\ result'.user \in DOMAIN sessions
             /\ UNCHANGED <<sessions, tasks, storage, log>>]_vars

\* a second upload of a user was warned off while the user's wizard waits for the
\* typeform file, having stored the master file
C24_Witness ==
    /\ result.op = "warn"
    /\ result.user \in DOMAIN sessions
    /\ \E k \in WizardsOf(result.user) :
          /\ tasks[k].at = "waiting"
          /\ tasks[k].category = "typeform"
    /\ has_file(storage, "master")

\* C25 (as claimed): whatever upload commands of one user are pending in one
\* channel, one CSV attachment message is taken by at most one of them, so no
\* message is stored under two categories.
C25_Original ==
    \A s1 \in log.stores : \A s2 \in log.stores : s1[1] = s2[1] => s1[2] = s2[2]

====
